---- MODULE Spec2Model ----
(***************************************************************************)
(* Benchmark evaluation and self-repair loop of the SQL generation agent   *)
(* (src/src/autotest): the Runner's per-case state machine, the Repairer's *)
(* apply / revert of knowledge-base edits, the run-level summary, and the  *)
(* ResultComparator's tolerance-aware comparison of two result sets.       *)
(*                                                                         *)
(* The specifications:                                                     *)
(*   Spec          Runner.run_all over a list of cases, one action per     *)
(*                 phase of Runner.run_case, collaborators (agent, oracle, *)
(*                 query service) answering nondeterministically;          *)
(*   FairSpec      Spec, every possible step being taken eventually;       *)
(*   SpecTwoRuns   Spec, with run_all called again on the same Runner;     *)
(*   SpecRepairer  Repairer.apply and Repairer.revert on every plan of a   *)
(*                 bounded size over every small knowledge base;           *)
(*   SpecCells     ResultComparator._rows_equal on pairs of cells;         *)
(*   SpecCompare   ResultComparator.compare on pairs of result sets, in    *)
(*                 both argument orders;                                   *)
(*   SpecStructural StructuralComparator.compare on every shape of reply   *)
(*                 the oracle client can hand over;                        *)
(*   SpecLoader    BenchmarkLoader.load on small benchmark files;          *)
(*   SpecCycles    the apply / revert cycles of two cases over one         *)
(*                 knowledge base, in sequence or concurrently.            *)
(***************************************************************************)
EXTENDS Integers, Sequences, FiniteSets, TLC

VARIABLES
    kb,               \* the knowledge base on disk: file -> Bytes(..), or Absent
    max_retries,      \* Runner.max_retries
    max_llm_calls,    \* Runner.max_llm_calls
    no_repair,        \* Runner.no_repair
    dry_run,          \* Runner.dry_run
    cases,            \* run_all(cases): the list of cases it is given
    llm_calls,        \* Runner._llm_calls
    pc,               \* position of the control flow in run_all / run_case
    case_idx,         \* index in `cases` of the case run_all is running
    retry,            \* run_case: loop variable of `for retry in range(max_retries)`
    generated_sql,    \* run_case: local generated_sql
    struct_result,    \* run_case: local struct_result
    result_outcome,   \* run_case: local result_outcome
    failure_context,  \* run_case: local failure_context
    repair_plans,     \* run_case: local repair_plans
    plan,             \* run_case: index in repair_plans of local `plan` (0: none yet)
    results,          \* run_all: local results
    summary,          \* run_all: the RunSummary returned
    raised,           \* run_all: the exception it let through to its caller
    hist,             \* history of the current case (see HistInit)
    done_hist,        \* one history per CaseResult in `results`
    unit,             \* state of the unit-level specifications (SpecRepairer, ...)
    runs              \* how many times run_all has been called on the Runner

vars == <<kb, max_retries, max_llm_calls, no_repair, dry_run, cases, llm_calls, pc,
          case_idx, retry, generated_sql, struct_result, result_outcome,
          failure_context, repair_plans, plan, results, summary, raised, hist,
          done_hist, unit, runs>>

(***************************************************************************)
(* Bounds of the model.                                                    *)
(***************************************************************************)
MaxRetriesBound == 2      \* max_retries ranges over 0..MaxRetriesBound
NumCases == 2             \* run_all is given NumCases cases (one more in FairSpecLonger)
MaxPlanLen == 2           \* SpecRepairer: plans of at most MaxPlanLen actions
MaxLlmCallsBound == 8     \* max_llm_calls ranges over 0..MaxLlmCallsBound
MaxRuns == 2              \* SpecTwoRuns: run_all is called at most MaxRuns times

\* Python's None, where a string is optional (a SQL text, a case id).
None == "None"
\* Python's None, where an object or a message is optional; messages and
\* objects are records here, and so is this.
Null == [none |-> TRUE]
\* A file that does not exist (os.path.exists is False).
Absent == [absent |-> TRUE]

\* What a call does: it returns a value, or it raises.
Returns(v) == [returns |-> v]
Raises(e) == [raises |-> e]

\* The code points of the characters that occur (ord): ASCII characters.
Ord ==
    ("\t" :> 9) @@ ("\n" :> 10) @@ ("\f" :> 12) @@ ("\r" :> 13) @@
    (" " :> 32) @@ ("\"" :> 34) @@ ("'" :> 39) @@ ("+" :> 43) @@ ("," :> 44) @@
    ("-" :> 45) @@
    ("." :> 46) @@ ("0" :> 48) @@ ("1" :> 49) @@ ("2" :> 50) @@ ("3" :> 51) @@
    ("4" :> 52) @@ ("5" :> 53) @@ ("6" :> 54) @@ ("7" :> 55) @@ ("8" :> 56) @@
    ("9" :> 57) @@ ("D" :> 68) @@ ("E" :> 69) @@ ("H" :> 72) @@ ("I" :> 73) @@
    ("L" :> 76) @@ ("N" :> 78) @@ ("S" :> 83) @@ ("T" :> 84) @@ ("[" :> 91) @@
    ("\\" :> 92) @@ ("]" :> 93) @@ ("a" :> 97) @@ ("b" :> 98) @@
    ("c" :> 99) @@ ("d" :> 100) @@ ("e" :> 101) @@ ("f" :> 102) @@
    ("g" :> 103) @@ ("i" :> 105) @@ ("l" :> 108) @@ ("m" :> 109) @@
    ("n" :> 110) @@ ("o" :> 111) @@ ("r" :> 114) @@ ("t" :> 116) @@
    ("x" :> 120)

\* A Python str held in a file or in a RepairAction: its code points.
Str(points) == [str |-> points]
\* The str a literal denotes.
Text(s) == Str([k \in 1..Len(s) |-> Ord[SubSeq(s, k, k)]])
\* A file that exists: its bytes.
Bytes(b) == [bytes |-> b]
\* The file holding the characters of an ASCII literal.
Ascii(s) == Bytes(Text(s).str)

\* The knowledge-base files the plans name: two below a directory, and one
\* named without a directory.
Files == {"snippets/dau.sql", "metrics/new.yaml", "new.yaml"}
\* The texts a plan may write: two plain ones and a lone surrogate, which
\* has no UTF-8 encoding.
Contents == {Text("original"), Text("modified"), Str(<<55296>>)}
\* The files a knowledge base may hold before a plan is applied: plain text,
\* text with a Windows line ending, and bytes that are not UTF-8.
Latin1 == Bytes(<<99, 97, 102, 233>>)
FileStates == {Ascii("original"), Ascii("a\r\nb"), Latin1, Absent}

(***************************************************************************)
(* Text files, as open(file) and open(file, "w") treat them: UTF-8 and     *)
(* universal newlines when reading, no newline translation when writing    *)
(* (os.linesep is "\n").                                                   *)
(***************************************************************************)

\* b[j] is a UTF-8 continuation byte.
Continuation(b, j) == j <= Len(b) /\ b[j] >= 128 /\ b[j] <= 191

\* The second byte of a sequence may be further restricted by the first
\* (no overlong forms, no surrogates, nothing above U+10FFFF).
SecondByte(b, j) ==
    /\ j + 1 <= Len(b)
    /\ b[j + 1] >= (IF b[j] = 224 THEN 160 ELSE IF b[j] = 240 THEN 144 ELSE 128)
    /\ b[j + 1] <= (IF b[j] = 237 THEN 159 ELSE IF b[j] = 244 THEN 143 ELSE 191)

\* The length of the well-formed UTF-8 sequence that starts at b[j]; 0 when
\* there is none.
Utf8Length(b, j) ==
    IF b[j] < 128 THEN 1
    ELSE IF b[j] >= 194 /\ b[j] <= 223 /\ Continuation(b, j + 1) THEN 2
    ELSE IF b[j] >= 224 /\ b[j] <= 239 /\ SecondByte(b, j) /\ Continuation(b, j + 2)
    THEN 3
    ELSE IF /\ b[j] >= 240 /\ b[j] <= 244 /\ SecondByte(b, j)
            /\ Continuation(b, j + 2) /\ Continuation(b, j + 3)
    THEN 4
    ELSE 0

\* The code point of the n-byte sequence at b[j].
CodePoint(b, j, n) ==
    IF n = 1 THEN b[j]
    ELSE IF n = 2 THEN (b[j] - 192) * 64 + (b[j + 1] - 128)
    ELSE IF n = 3
    THEN (b[j] - 224) * 4096 + (b[j + 1] - 128) * 64 + (b[j + 2] - 128)
    ELSE (b[j] - 240) * 262144 + (b[j + 1] - 128) * 4096
         + (b[j + 2] - 128) * 64 + (b[j + 3] - 128)

\* b is well-formed UTF-8 from b[j] on.
RECURSIVE WellFormedFrom(_, _)
WellFormedFrom(b, j) ==
    \/ j > Len(b)
    \/ \E n \in 1..4 : n = Utf8Length(b, j) /\ WellFormedFrom(b, j + n)

\* The code points of well-formed UTF-8 from b[j] on, n being the length of
\* the sequence at b[j].
RECURSIVE PointsFrom(_, _)
PointsFrom(b, j) ==
    IF j > Len(b)
    THEN <<>>
    ELSE CHOOSE points \in { <<CodePoint(b, j, n)>> \o PointsFrom(b, j + n) :
                                n \in {Utf8Length(b, j)} } : TRUE

\* Universal newlines: "\r\n" and a lone "\r" are read as "\n" (a "\r" before
\* a "\n" is dropped, any other "\r" becomes "\n").
RECURSIVE TranslateNewlines(_, _)
TranslateNewlines(points, j) ==
    IF j > Len(points)
    THEN <<>>
    ELSE IF points[j] = 13 /\ j < Len(points) /\ points[j + 1] = 10
    THEN TranslateNewlines(points, j + 1)
    ELSE <<IF points[j] = 13 THEN 10 ELSE points[j]>>
         \o TranslateNewlines(points, j + 1)

\* open(file).read() on a file holding the bytes b: the str, or the
\* UnicodeDecodeError of bytes that are not UTF-8.
ReadText(b) ==
    IF WellFormedFrom(b, 1)
    THEN CHOOSE r \in { Returns(Str(TranslateNewlines(points, 1))) :
                           points \in {PointsFrom(b, 1)} } : TRUE
    ELSE Raises("UnicodeDecodeError")

\* The UTF-8 bytes of one code point that is not a surrogate.
EncodePoint(c) ==
    IF c < 128 THEN <<c>>
    ELSE IF c < 2048 THEN <<192 + (c \div 64), 128 + (c % 64)>>
    ELSE IF c < 65536
    THEN <<224 + (c \div 4096), 128 + ((c \div 64) % 64), 128 + (c % 64)>>
    ELSE <<240 + (c \div 262144), 128 + ((c \div 4096) % 64),
           128 + ((c \div 64) % 64), 128 + (c % 64)>>

IsSurrogate(c) == c >= 55296 /\ c <= 57343

\* The UTF-8 bytes of code points without a surrogate, from points[j] on.
RECURSIVE EncodeFrom(_, _)
EncodeFrom(points, j) ==
    IF j > Len(points)
    THEN <<>>
    ELSE EncodePoint(points[j]) \o EncodeFrom(points, j + 1)

\* str.encode("utf-8"): the bytes, or UnicodeEncodeError on a surrogate.
Encode(text) ==
    IF \E k \in 1..Len(text.str) : IsSurrogate(text.str[k])
    THEN Raises("UnicodeEncodeError")
    ELSE Returns(EncodeFrom(text.str, 1))

\* with open(file, "w") as f: f.write(text): the file is truncated when it
\* is opened, and holds the encoded text when the write succeeds.
WriteText(disk, file, text) ==
    LET encoded == Encode(text) IN
    IF "raises" \in DOMAIN encoded
    THEN [disk |-> [disk EXCEPT ![file] = Bytes(<<>>)], raises |-> encoded.raises]
    ELSE [disk |-> [disk EXCEPT ![file] = Bytes(encoded.returns)]]

RECURSIVE LastSlash(_, _)
LastSlash(path, j) ==
    IF j = 0 THEN 0
    ELSE IF SubSeq(path, j, j) = "/" THEN j
    ELSE LastSlash(path, j - 1)

RECURSIVE RStripSlashes(_)
RStripSlashes(path) ==
    IF Len(path) > 0 /\ SubSeq(path, Len(path), Len(path)) = "/"
    THEN RStripSlashes(SubSeq(path, 1, Len(path) - 1))
    ELSE path

\* os.path.dirname(path)
Dirname(path) ==
    LET head == SubSeq(path, 1, LastSlash(path, Len(path))) IN
    IF \A k \in 1..Len(head) : SubSeq(head, k, k) = "/"
    THEN head
    ELSE RStripSlashes(head)

\* os.makedirs(name, exist_ok=True) raises on the empty name.
MakedirsRaises(name) == name = ""

(***************************************************************************)
(* Repairer (src/src/autotest/repairer.py)                                 *)
(***************************************************************************)

\* RepairAction(type, file, content): _original defaults to None.
RepairAction(type, file, content) ==
    [type |-> type, file |-> file, content |-> content, original |-> Null]

\* RepairPlan(actions, reasoning).
RepairPlan(actions, reasoning) == [actions |-> actions, reasoning |-> reasoning]

\* One iteration of apply's loop, on action number i of `actions`: record the
\* file's current text (None if it does not exist), create its directory,
\* then overwrite it.  A step that raises ends the loop; `raises` names the
\* exception.
ApplyAction(disk, actions, i) ==
    LET a == actions[i]
        read == IF disk[a.file] # Absent
                THEN ReadText(disk[a.file].bytes)
                ELSE Returns(Null)
    IN  IF "raises" \in DOMAIN read
        THEN [disk |-> disk, actions |-> actions, raises |-> read.raises]
        ELSE LET saved == [actions EXCEPT ![i].original = read.returns] IN
             IF MakedirsRaises(Dirname(a.file))
             THEN [disk |-> disk, actions |-> saved, raises |-> "FileNotFoundError"]
             ELSE LET written == WriteText(disk, a.file, a.content) IN
                  IF "raises" \in DOMAIN written
                  THEN [disk |-> written.disk, actions |-> saved,
                        raises |-> written.raises]
                  ELSE [disk |-> written.disk, actions |-> saved]

\* The loop of apply from action number i on; it ends at the first step
\* that raises.  (The outcome of a step is computed once, as the one element
\* of a set.)
RECURSIVE ApplyFrom(_, _, _)
ApplyFrom(disk, actions, i) ==
    IF i > Len(actions)
    THEN [disk |-> disk, actions |-> actions]
    ELSE LET Rest(s) == IF "raises" \in DOMAIN s
                        THEN s
                        ELSE ApplyFrom(s.disk, s.actions, i + 1)
         IN  CHOOSE r \in { Rest(s) : s \in {ApplyAction(disk, actions, i)} } : TRUE

\* The disk and the (mutated in place) plan a call of apply leaves behind,
\* with the exception when it raised.
Applied(p, s) ==
    IF "raises" \in DOMAIN s
    THEN [disk |-> s.disk, plan |-> [p EXCEPT !.actions = s.actions],
          raises |-> s.raises]
    ELSE [disk |-> s.disk, plan |-> [p EXCEPT !.actions = s.actions]]

\* A buggy apply that stops after the first action (partial application).
ApplyFirstOnly(disk, p) ==
    IF Len(p.actions) = 0
    THEN [disk |-> disk, plan |-> p]
    ELSE Applied(p, ApplyAction(disk, p.actions, 1))

\* Repairer.apply(plan).
Apply(disk, p) ==
    CHOOSE r \in { Applied(p, s) : s \in {ApplyFrom(disk, p.actions, 1)} } : TRUE

\* One iteration of revert's loop: restore _original when it is not None,
\* otherwise remove the file if it exists.  _original is text that was read
\* from a file, which always has an encoding.
RevertAction(disk, a) ==
    IF a.original # Null
    THEN WriteText(disk, a.file, a.original).disk
    ELSE IF disk[a.file] # Absent
         THEN [disk EXCEPT ![a.file] = Absent]
         ELSE disk

RECURSIVE RevertFrom(_, _, _)
RevertFrom(disk, actions, i) ==
    IF i > Len(actions)
    THEN disk
    ELSE RevertFrom(RevertAction(disk, actions[i]), actions, i + 1)

\* A revert that forgets to restore anything.
RevertNothing(disk, p) == disk

\* Repairer.revert(plan): the disk afterwards (actions in list order).
Revert(disk, p) == RevertFrom(disk, p.actions, 1)

(***************************************************************************)
(* Collaborators of the Runner: what they may answer.                      *)
(***************************************************************************)

\* dict.get(key, default)
Get(d, k, default) == IF k \in DOMAIN d THEN d[k] ELSE default

\* Agent.ask(question): a SQL-bearing response, or another type of response
\* with or without a message.
\* Each call returns its own SQL text, so that two SQL strings of one run are
\* the same string only when they come from the same answer.
SqlOfCall(n) == "SELECT " \o ToString(n)

AgentResponses ==
    { [type |-> "sql", sql |-> SqlOfCall(llm_calls + 1)],
      [type |-> "clarification", message |-> "Which region?"],
      [type |-> "error"] }

\* The oracle's structured answer to a structural comparison.
JudgeResponses ==
    { [match |-> TRUE, differences |-> <<>>],
      [match |-> FALSE, differences |-> <<"wrong table">>] }

\* CompareResult(match, differences)
CompareResult(match, differences) == [match |-> match, differences |-> differences]

\* StructuralComparator.compare, given the oracle's parsed response.
StructuralCompare(response) ==
    CompareResult(Get(response, "match", FALSE), Get(response, "differences", <<>>))

\* ResultCompareResult(match, schema_diff, row_mismatches, sample_diffs)
ResultCompareResult(match, schema_diff, row_mismatches, sample_diffs) ==
    [match |-> match, schema_diff |-> schema_diff,
     row_mismatches |-> row_mismatches, sample_diffs |-> sample_diffs]

\* Runner._run_result_compare: both SQL strings are executed by the query
\* service and the two result sets compared; what comes back depends on the
\* data behind the service.  The comparison raises on some data (a 0 paired
\* with a nan), and nothing in the Runner catches that.
ResultOutcomes ==
    { ResultCompareResult(TRUE, <<>>, 0, <<>>),
      ResultCompareResult(FALSE, <<>>, 1, <<"Row 0: expected [1], got [2]">>),
      Raises("ZeroDivisionError") }

\* The plans Repairer.propose may build from the oracle's answer: a creation
\* of a new file plus an edit of an existing one, two edits of the same
\* file, and an edit followed by a creation under a name without directory.
ProposedPlans ==
    { RepairPlan(<<RepairAction("create_metric", "metrics/new.yaml", Text("modified")),
                   RepairAction("edit_snippet", "snippets/dau.sql", Text("modified"))>>,
                 "add"),
      RepairPlan(<<RepairAction("edit_snippet", "snippets/dau.sql", Text("modified")),
                   RepairAction("edit_snippet", "snippets/dau.sql", Text("original"))>>,
                 "twice"),
      RepairPlan(<<RepairAction("edit_snippet", "snippets/dau.sql", Text("modified")),
                   RepairAction("create_metric", "new.yaml", Text("modified"))>>,
                 "bare") }

\* The knowledge base a run may start from.
InitialKBs ==
    { [f \in Files |-> IF f = "snippets/dau.sql" THEN Ascii("original") ELSE Absent] }

(***************************************************************************)
(* Runner (src/src/autotest/runner.py)                                     *)
(***************************************************************************)

\* A list of n cases, as run_all is given one.
CaseList(n) == [i \in 1..n |-> [id |-> i]]

\* CaseResult, with the dataclass defaults written out.
CaseResult(case_id, passed, retries, structural, result, plans, error) ==
    [case_id |-> case_id, passed |-> passed, retries |-> retries,
     structural_result |-> structural, result_result |-> result,
     repair_plans |-> plans, error |-> error]

\* f"Structural mismatch: {struct_result.differences}"
StructuralContext(sr) == [text |-> "Structural mismatch", differences |-> sr.differences]

\* f"Result mismatch: {row_mismatches} rows differ. {sample_diffs}"
ResultContext(ro) ==
    [text |-> "Result mismatch", row_mismatches |-> ro.row_mismatches,
     sample_diffs |-> ro.sample_diffs]

\* A plain message.
Message(text) == [text |-> text]

\* A budget stop that carries no error.
BudgetErrorMissing == Null

\* runner.py line 108: the error of a case stopped by the budget.
BudgetError == Message("Global LLM call budget exhausted")

\* A runner that reports its own text whatever the agent said.
AgentMessageDefaultOnly(response) == Message("Agent did not return SQL")

\* response.get("message", "Agent did not return SQL")
AgentMessage(response) == Message(Get(response, "message", "Agent did not return SQL"))

\* A budget test that is off by one.
BudgetExhaustedLate == llm_calls > max_llm_calls

\* runner.py line 102: the budget test at the head of a retry attempt.
BudgetExhausted == llm_calls >= max_llm_calls

\* A runner that writes plans to disk even in a dry run.
ApplyAlways == TRUE

\* A runner that never writes a plan to disk.
ApplySkipped == FALSE

\* runner.py line 120: the proposed plan is applied unless dry_run.
ApplyWanted == ~dry_run

\* A runner that forgets the revert after a non-SQL response.
RevertSkipped == FALSE

\* runner.py line 128: revert after a regenerated non-SQL response.
RevertOnNonSql == ~dry_run

\* runner.py line 153: revert after a structural mismatch of the regenerated SQL.
RevertOnStructuralMismatch == ~dry_run

\* A runner that reverts after a result mismatch as well.
RevertAfterResultMismatch == ~dry_run

\* runner.py lines 150-154: no revert on the result-mismatch branch.
RevertOnResultMismatch == FALSE

\* A runner that goes on to the result comparison whatever the structural
\* comparison said.
StructuralMatchIgnored(sr) == TRUE

\* runner.py lines 75 and 137: `if struct_result.match:`.
StructuralMatched(sr) == sr.match

\* A retries count that forgets the attempt that passed.
PassedRetriesOffByOne(r) == r

\* runner.py line 145: retries of a case that passes in retry attempt r.
PassedRetries(r) == r + 1

\* A runner that ignores no_repair.
NoRepairIgnored == FALSE

\* runner.py line 91: evaluation-only mode.
NoRepairStop == no_repair

\* A summary that counts a repaired case as passed too.
RunSummaryPassedTwice(rs) ==
    [total    |-> Len(rs),
     passed   |-> Cardinality({i \in 1..Len(rs) : rs[i].passed}),
     repaired |-> Cardinality({i \in 1..Len(rs) : rs[i].passed /\ rs[i].retries > 0}),
     failed   |-> Cardinality({i \in 1..Len(rs) : ~rs[i].passed}),
     results  |-> rs]

\* RunSummary built at the end of run_all.
RunSummary(rs) ==
    [total    |-> Len(rs),
     passed   |-> Cardinality({i \in 1..Len(rs) : rs[i].passed /\ rs[i].retries = 0}),
     repaired |-> Cardinality({i \in 1..Len(rs) : rs[i].passed /\ rs[i].retries > 0}),
     failed   |-> Cardinality({i \in 1..Len(rs) : ~rs[i].passed}),
     results  |-> rs]

(***************************************************************************)
(* History kept beside the program state, for the properties only: the     *)
(* knowledge base and the counter when the case started, how each attempt  *)
(* of the case ended, and what was done with each proposed plan.           *)
(***************************************************************************)
HistInit(disk, calls) ==
    [kb_start |-> disk, calls_start |-> calls, attempts |-> <<>>, status |-> <<>>,
     kb_end |-> disk, calls_end |-> calls,
     first |-> Null, judged_sql |-> None, executed_sql |-> None,
     called |-> [ask |-> 0, compare |-> 0, propose |-> 0]]

\* The agent's first response for the case.
HistFirst(h, response) == [h EXCEPT !.first = response]

\* The SQL text handed to the structural comparator last.
HistJudged(h, sql) == [h EXCEPT !.judged_sql = sql]

\* The SQL text handed to the result comparison (the query service) last.
HistExecuted(h, sql) == [h EXCEPT !.executed_sql = sql]

\* One more call of agent.ask ("ask"), structural_comparator.compare
\* ("compare") or repairer.propose ("propose") has returned.
HistCalled(h, who) == [h EXCEPT !.called[who] = @ + 1]

HistAttempt(h, how) == [h EXCEPT !.attempts = Append(@, how)]

HistStatus(h, i, what) == [h EXCEPT !.status[i] = what]

HistEnd(h, disk, calls) == [h EXCEPT !.kb_end = disk, !.calls_end = calls]

(***************************************************************************)
(* Init: a Runner has been constructed over some knowledge base; run_all   *)
(* has not been called yet.                                                *)
(***************************************************************************)
RunnerLocals ==
    /\ retry = 0
    /\ generated_sql = None
    /\ struct_result = Null
    /\ result_outcome = Null
    /\ failure_context = Null
    /\ repair_plans = <<>>
    /\ plan = 0

InitWith(n) ==
    /\ kb \in InitialKBs
    /\ max_retries \in 0..MaxRetriesBound
    /\ max_llm_calls \in 0..MaxLlmCallsBound
    /\ no_repair \in BOOLEAN
    /\ dry_run \in BOOLEAN
    /\ cases = CaseList(n)
    /\ llm_calls = 0
    /\ pc = "idle"
    /\ case_idx = 0
    /\ RunnerLocals
    /\ results = <<>>
    /\ summary = Null
    /\ raised = Null
    /\ hist = HistInit(kb, 0)
    /\ done_hist = <<>>
    /\ unit = Null
    /\ runs = 0

Init == InitWith(NumCases)

\* The same, with a list of one case more.
InitLonger == InitWith(NumCases + 1)

\* What stays as given: the arguments of the constructor and of run_all.
Config == <<max_retries, max_llm_calls, no_repair, dry_run, cases>>

\* A run_all that stops at the first case that does not pass.
ReturnAbortsOnFailure(r, h) ==
    /\ results' = Append(results, r)
    /\ done_hist' = Append(done_hist, HistEnd(h, kb', llm_calls'))
    /\ retry' = 0
    /\ generated_sql' = None
    /\ struct_result' = Null
    /\ result_outcome' = Null
    /\ failure_context' = Null
    /\ repair_plans' = <<>>
    /\ plan' = 0
    /\ hist' = HistInit(kb', llm_calls')
    /\ IF case_idx < Len(cases) /\ r.passed
       THEN /\ case_idx' = case_idx + 1
            /\ pc' = "generate"
       ELSE /\ case_idx' = case_idx
            /\ pc' = "summarize"

\* run_case returns r: run_all appends it and goes on to the next case, or
\* leaves its loop after the last one.  h is the history of the case.
Return(r, h) ==
    /\ results' = Append(results, r)
    /\ done_hist' = Append(done_hist, HistEnd(h, kb', llm_calls'))
    /\ retry' = 0
    /\ generated_sql' = None
    /\ struct_result' = Null
    /\ result_outcome' = Null
    /\ failure_context' = Null
    /\ repair_plans' = <<>>
    /\ plan' = 0
    /\ IF case_idx < Len(cases)
       THEN /\ case_idx' = case_idx + 1
            /\ pc' = "generate"
            /\ hist' = HistInit(kb', llm_calls')
       ELSE /\ case_idx' = case_idx
            /\ pc' = "summarize"
            /\ hist' = HistInit(kb', llm_calls')

\* A loop that starts the same retry attempt again.
NextAttemptSameRetry ==
    /\ retry' = retry
    /\ pc' = "loop"

\* `continue`, or the end of the loop body: the next retry attempt.
NextAttempt ==
    /\ retry' = retry + 1
    /\ pc' = "loop"

\* An exception leaves run_case and run_all (neither has a handler): the
\* call of run_all ends with no CaseResult for the case and no summary.
\* h is the history of the case; the action sets `raised`.
Raise(h) ==
    /\ pc' = "raised"
    /\ hist' = h
    /\ UNCHANGED <<case_idx, retry, generated_sql, struct_result, result_outcome,
                   failure_context, repair_plans, plan, results, done_hist>>

\* run_all lines 173-175: results = [], and the loop over the cases starts
\* with fresh locals.  Nothing else of the Runner is touched: _llm_calls
\* keeps its value.
StartRun ==
    /\ results' = <<>>
    /\ done_hist' = <<>>
    /\ IF Len(cases) > 0
       THEN /\ case_idx' = 1
            /\ pc' = "generate"
            /\ hist' = HistInit(kb, llm_calls)
       ELSE /\ case_idx' = 0
            /\ pc' = "summarize"
            /\ hist' = HistInit(kb, llm_calls)
    /\ summary' = Null
    /\ raised' = Null
    /\ runs' = runs + 1
    /\ retry' = 0
    /\ generated_sql' = None
    /\ struct_result' = Null
    /\ result_outcome' = Null
    /\ failure_context' = Null
    /\ repair_plans' = <<>>
    /\ plan' = 0
    /\ UNCHANGED <<kb, Config, llm_calls, unit>>

\* run_all is called on a Runner fresh from its constructor.
RunAll ==
    /\ pc = "idle"
    /\ StartRun

\* run_all is called again on the same Runner, after the previous call has
\* returned its summary or raised.
RunAllAgain ==
    /\ pc \in {"done", "raised"}
    /\ runs < MaxRuns
    /\ StartRun

\* run_case lines 61-69: Phase 1, the agent is asked for SQL.
Generate ==
    /\ pc = "generate"
    /\ \E response \in AgentResponses :
         /\ llm_calls' = llm_calls + 1
         /\ kb' = kb
         /\ IF Get(response, "type", None) # "sql"
            THEN Return(CaseResult(cases[case_idx].id, FALSE, 0, Null, Null, <<>>,
                                   AgentMessage(response)),
                        HistAttempt(HistCalled(HistFirst(hist, response), "ask"), "non_sql"))
            ELSE /\ generated_sql' = response.sql
                 /\ pc' = "structural"
                 /\ hist' = HistCalled(HistFirst(hist, response), "ask")
                 /\ UNCHANGED <<case_idx, retry, struct_result, result_outcome,
                                failure_context, repair_plans, plan, results,
                                done_hist>>
    /\ UNCHANGED <<Config, summary, raised, unit, runs>>

\* run_case lines 71-75 and 86-88: Phase 1b, the structural comparison.
StructuralCompareStep ==
    /\ pc = "structural"
    /\ \E response \in JudgeResponses :
         LET sr == StructuralCompare(response) IN
         /\ struct_result' = sr
         /\ llm_calls' = llm_calls + 1
         /\ IF StructuralMatched(sr)
            THEN /\ pc' = "result"
                 /\ hist' = HistCalled(HistJudged(hist, generated_sql), "compare")
                 /\ UNCHANGED <<failure_context, result_outcome>>
            ELSE /\ failure_context' = StructuralContext(sr)
                 /\ result_outcome' = Null
                 /\ hist' = HistAttempt(HistCalled(HistJudged(hist, generated_sql),
                                                   "compare"),
                                        "structural_mismatch")
                 /\ pc' = "phase3"
    /\ UNCHANGED <<kb, Config, case_idx, retry, generated_sql, repair_plans, plan,
                   results, summary, raised, done_hist, unit, runs>>

\* A Phase 2 that tests the budget before it lets the case pass.
ResultCompareStepBudgeted ==
    /\ pc = "result"
    /\ \E outcome \in ResultOutcomes :
         /\ UNCHANGED <<kb, llm_calls>>
         /\ raised' = IF "raises" \in DOMAIN outcome THEN outcome ELSE raised
         /\ IF "raises" \in DOMAIN outcome
            THEN Raise(HistAttempt(HistExecuted(hist, generated_sql), "raised"))
            ELSE IF outcome.match /\ llm_calls >= max_llm_calls
            THEN Return(CaseResult(cases[case_idx].id, FALSE, 0, Null, Null, <<>>,
                                   BudgetError),
                        HistAttempt(HistExecuted(hist, generated_sql), "budget"))
            ELSE IF outcome.match
            THEN Return(CaseResult(cases[case_idx].id, TRUE, 0, struct_result, outcome,
                                   <<>>, Null),
                        HistAttempt(HistExecuted(hist, generated_sql), "pass"))
            ELSE /\ result_outcome' = outcome
                 /\ failure_context' = ResultContext(outcome)
                 /\ hist' = HistAttempt(HistExecuted(hist, generated_sql),
                                        "result_mismatch")
                 /\ pc' = "phase3"
                 /\ UNCHANGED <<case_idx, retry, generated_sql, struct_result,
                                repair_plans, plan, results, done_hist>>
    /\ UNCHANGED <<Config, summary, unit, runs>>

\* A Phase 2 that charges the result comparison to the budget.
ResultCompareStepCounted ==
    /\ pc = "result"
    /\ \E outcome \in ResultOutcomes :
         /\ kb' = kb
         /\ llm_calls' = llm_calls + 1
         /\ raised' = IF "raises" \in DOMAIN outcome THEN outcome ELSE raised
         /\ IF "raises" \in DOMAIN outcome
            THEN Raise(HistAttempt(HistExecuted(hist, generated_sql), "raised"))
            ELSE IF outcome.match
            THEN Return(CaseResult(cases[case_idx].id, TRUE, 0, struct_result, outcome,
                                   <<>>, Null),
                        HistAttempt(HistExecuted(hist, generated_sql), "pass"))
            ELSE /\ result_outcome' = outcome
                 /\ failure_context' = ResultContext(outcome)
                 /\ hist' = HistAttempt(HistExecuted(hist, generated_sql),
                                        "result_mismatch")
                 /\ pc' = "phase3"
                 /\ UNCHANGED <<case_idx, retry, generated_sql, struct_result,
                                repair_plans, plan, results, done_hist>>
    /\ UNCHANGED <<Config, summary, unit, runs>>

\* run_case lines 76-85: Phase 2, the result comparison.
ResultCompareStep ==
    /\ pc = "result"
    /\ \E outcome \in ResultOutcomes :
         /\ UNCHANGED <<kb, llm_calls>>
         /\ raised' = IF "raises" \in DOMAIN outcome THEN outcome ELSE raised
         /\ IF "raises" \in DOMAIN outcome
            THEN Raise(HistAttempt(HistExecuted(hist, generated_sql), "raised"))
            ELSE IF outcome.match
            THEN Return(CaseResult(cases[case_idx].id, TRUE, 0, struct_result, outcome,
                                   <<>>, Null),
                        HistAttempt(HistExecuted(hist, generated_sql), "pass"))
            ELSE /\ result_outcome' = outcome
                 /\ failure_context' = ResultContext(outcome)
                 /\ hist' = HistAttempt(HistExecuted(hist, generated_sql),
                                        "result_mismatch")
                 /\ pc' = "phase3"
                 /\ UNCHANGED <<case_idx, retry, generated_sql, struct_result,
                                repair_plans, plan, results, done_hist>>
    /\ UNCHANGED <<Config, summary, unit, runs>>

\* run_case lines 90-100: Phase 3 starts, or stops at once when no_repair.
Phase3 ==
    /\ pc = "phase3"
    /\ UNCHANGED <<kb, llm_calls>>
    /\ IF NoRepairStop
       THEN Return(CaseResult(cases[case_idx].id, FALSE, 0, struct_result, result_outcome,
                              <<>>, failure_context),
                   hist)
       ELSE /\ repair_plans' = <<>>
            /\ retry' = 0
            /\ pc' = "loop"
            /\ UNCHANGED <<case_idx, generated_sql, struct_result, result_outcome,
                           failure_context, plan, results, hist, done_hist>>
    /\ UNCHANGED <<Config, summary, raised, unit, runs>>

\* run_case lines 101-109 and 156-164: the head of `for retry in
\* range(max_retries)`: the loop is over, or the budget is exhausted, or the
\* attempt starts.
LoopHead ==
    /\ pc = "loop"
    /\ UNCHANGED <<kb, llm_calls>>
    /\ IF retry >= max_retries
       THEN Return(CaseResult(cases[case_idx].id, FALSE, max_retries, struct_result,
                              result_outcome, repair_plans, failure_context),
                   hist)
       ELSE IF BudgetExhausted
       THEN Return(CaseResult(cases[case_idx].id, FALSE, retry, Null, Null,
                              repair_plans, BudgetError),
                   HistAttempt(hist, "budget"))
       ELSE /\ pc' = "propose"
            /\ UNCHANGED <<case_idx, retry, generated_sql, struct_result, result_outcome,
                           failure_context, repair_plans, plan, results, hist, done_hist>>
    /\ UNCHANGED <<Config, summary, raised, unit, runs>>

\* run_case lines 111-120: the repairer proposes a plan, which is recorded.
Propose ==
    /\ pc = "propose"
    /\ \E p \in ProposedPlans :
         /\ repair_plans' = Append(repair_plans, p)
         /\ plan' = Len(repair_plans) + 1
    /\ llm_calls' = llm_calls + 1
    /\ hist' = HistCalled(HistStatus([hist EXCEPT !.status = Append(@, "proposed")],
                                     Len(repair_plans) + 1, "proposed"),
                          "propose")
    /\ pc' = IF ApplyWanted THEN "apply" ELSE "regenerate"
    /\ UNCHANGED <<kb, Config, case_idx, retry, generated_sql, struct_result,
                   result_outcome, failure_context, results, summary, raised,
                   done_hist, unit, runs>>

\* run_case line 121: the plan is applied; its actions now hold their originals.
\* When apply raises, what it wrote so far stays on disk and the exception
\* leaves run_all.
ApplyPlan ==
    /\ pc = "apply"
    /\ \E s \in {Apply(kb, repair_plans[plan])} :
         /\ kb' = s.disk
         /\ repair_plans' = [repair_plans EXCEPT ![plan] = s.plan]
         /\ IF "raises" \in DOMAIN s
            THEN /\ raised' = Raises(s.raises)
                 /\ hist' = HistAttempt(HistStatus(hist, plan, "apply_raised"), "raised")
                 /\ pc' = "raised"
            ELSE /\ raised' = raised
                 /\ hist' = HistStatus(hist, plan, "applied")
                 /\ pc' = "regenerate"
    /\ UNCHANGED <<Config, llm_calls, case_idx, retry, generated_sql, struct_result,
                   result_outcome, failure_context, plan, results, summary,
                   done_hist, unit, runs>>

\* run_case lines 123-132: the agent is asked again.
Regenerate ==
    /\ pc = "regenerate"
    /\ \E response \in AgentResponses :
         /\ llm_calls' = llm_calls + 1
         /\ IF Get(response, "type", None) # "sql"
            THEN /\ hist' = HistAttempt(HistCalled(hist, "ask"), "non_sql")
                 /\ IF RevertOnNonSql
                    THEN pc' = "revert" /\ retry' = retry
                    ELSE NextAttempt
                 /\ UNCHANGED generated_sql
            ELSE /\ generated_sql' = response.sql
                 /\ pc' = "restructural"
                 /\ hist' = HistCalled(hist, "ask")
                 /\ UNCHANGED retry
    /\ UNCHANGED <<kb, Config, case_idx, struct_result, result_outcome,
                   failure_context, repair_plans, plan, results, summary, raised,
                   done_hist, unit, runs>>

\* run_case lines 134-137 and 151-154: the structural comparison of the
\* regenerated SQL.
ReStructuralCompare ==
    /\ pc = "restructural"
    /\ \E response \in JudgeResponses :
         LET sr == StructuralCompare(response) IN
         /\ struct_result' = sr
         /\ llm_calls' = llm_calls + 1
         /\ IF StructuralMatched(sr)
            THEN /\ pc' = "reresult"
                 /\ hist' = HistCalled(HistJudged(hist, generated_sql), "compare")
                 /\ UNCHANGED <<failure_context, retry>>
            ELSE /\ failure_context' = StructuralContext(sr)
                 /\ hist' = HistAttempt(HistCalled(HistJudged(hist, generated_sql),
                                                   "compare"),
                                        "structural_mismatch")
                 /\ IF RevertOnStructuralMismatch
                    THEN pc' = "revert" /\ retry' = retry
                    ELSE NextAttempt
    /\ UNCHANGED <<kb, Config, case_idx, generated_sql, result_outcome,
                   repair_plans, plan, results, summary, raised, done_hist, unit, runs>>

\* run_case lines 138-150: the result comparison of the regenerated SQL.
ReResultCompare ==
    /\ pc = "reresult"
    /\ \E outcome \in ResultOutcomes :
         /\ UNCHANGED <<kb, llm_calls>>
         /\ raised' = IF "raises" \in DOMAIN outcome THEN outcome ELSE raised
         /\ IF "raises" \in DOMAIN outcome
            THEN Raise(HistAttempt(HistExecuted(hist, generated_sql), "raised"))
            ELSE IF outcome.match
            THEN Return(CaseResult(cases[case_idx].id, TRUE, PassedRetries(retry),
                                   struct_result, outcome, repair_plans, Null),
                        HistAttempt(HistExecuted(hist, generated_sql), "pass"))
            ELSE /\ result_outcome' = outcome
                 /\ failure_context' = ResultContext(outcome)
                 /\ hist' = HistAttempt(HistExecuted(hist, generated_sql),
                                        "result_mismatch")
                 /\ IF RevertOnResultMismatch
                    THEN pc' = "revert" /\ retry' = retry
                    ELSE NextAttempt
                 /\ UNCHANGED <<case_idx, generated_sql, struct_result,
                                repair_plans, plan, results, done_hist>>
    /\ UNCHANGED <<Config, summary, unit, runs>>

\* run_case lines 129 and 154: the plan of this attempt is reverted, and the
\* loop goes on.
RevertPlan ==
    /\ pc = "revert"
    /\ kb' = Revert(kb, repair_plans[plan])
    /\ hist' = HistStatus(hist, plan, "reverted")
    /\ NextAttempt
    /\ UNCHANGED <<Config, llm_calls, case_idx, generated_sql, struct_result,
                   result_outcome, failure_context, repair_plans, plan, results,
                   summary, raised, done_hist, unit, runs>>

\* run_all lines 179-189: the summary is built and returned.
Summarize ==
    /\ pc = "summarize"
    /\ summary' = RunSummary(results)
    /\ pc' = "done"
    /\ UNCHANGED <<kb, Config, llm_calls, case_idx, retry, generated_sql,
                   struct_result, result_outcome, failure_context, repair_plans,
                   plan, results, raised, hist, done_hist, unit, runs>>

Next ==
    \/ RunAll
    \/ Generate
    \/ StructuralCompareStep
    \/ ResultCompareStep
    \/ Phase3
    \/ LoopHead
    \/ Propose
    \/ ApplyPlan
    \/ Regenerate
    \/ ReStructuralCompare
    \/ ReResultCompare
    \/ RevertPlan
    \/ Summarize

Spec == Init /\ [][Next]_vars

\* The same Runner object serves up to MaxRuns calls of run_all.
NextTwoRuns == Next \/ RunAllAgain

SpecTwoRuns == Init /\ [][NextTwoRuns]_vars

\* run_all is sequential code whose collaborators return: whenever a step
\* is possible, one is taken.
FairSpec == Spec /\ WF_vars(Next)

\* The same for a run over the longer list of cases.
FairSpecLonger == InitLonger /\ [][Next]_vars /\ WF_vars(Next)

(***************************************************************************)
(* SpecRepairer: Repairer.apply and Repairer.revert called directly, on    *)
(* every plan of at most MaxPlanLen actions over every knowledge base.     *)
(* unit = [phase, kb0, plan, raised]: what has been called so far, the     *)
(* knowledge base before the first call, the plan object, and the          *)
(* exception apply raised, if any.                                         *)
(***************************************************************************)
\* The type an action on file f carries (apply and revert do not read it).
ActionType(f) == IF f = "snippets/dau.sql" THEN "edit_snippet" ELSE "create_metric"

Actions == { RepairAction(ActionType(f), f, c) : f \in Files, c \in Contents }

RECURSIVE SeqsUpTo(_, _)
SeqsUpTo(S, n) ==
    IF n = 0
    THEN { <<>> }
    ELSE LET shorter == SeqsUpTo(S, n - 1)
         IN  shorter \cup { Append(q, x) : q \in shorter, x \in S }

AllPlans == { RepairPlan(as, "fix") : as \in SeqsUpTo(Actions, MaxPlanLen) }

\* The snippet is in any of the states a file may be in; the two metric
\* files are absent or hold plain text.
AllKBs ==
    { disk \in [Files -> FileStates] :
        \A f \in Files \ {"snippets/dau.sql"} : disk[f] \in {Absent, Ascii("original")} }

InitRepairer ==
    /\ kb \in AllKBs
    /\ \E p \in AllPlans :
         unit = [phase |-> "proposed", kb0 |-> kb, plan |-> p, raised |-> Null]
    /\ max_retries = 0
    /\ max_llm_calls = 0
    /\ no_repair = FALSE
    /\ dry_run = FALSE
    /\ cases = <<>>
    /\ llm_calls = 0
    /\ pc = "unit"
    /\ case_idx = 0
    /\ RunnerLocals
    /\ results = <<>>
    /\ summary = Null
    /\ raised = Null
    /\ hist = HistInit(kb, 0)
    /\ done_hist = <<>>
    /\ runs = 0

RunnerVars == <<max_retries, max_llm_calls, no_repair, dry_run, cases, llm_calls, pc,
                case_idx, retry, generated_sql, struct_result, result_outcome,
                failure_context, repair_plans, plan, results, summary, raised, hist,
                done_hist, runs>>

\* repairer.apply(plan) on a plan fresh from propose.
RepairerApply ==
    /\ unit.phase = "proposed"
    /\ LET s == Apply(kb, unit.plan) IN
         /\ kb' = s.disk
         /\ unit' = IF "raises" \in DOMAIN s
                    THEN [unit EXCEPT !.phase = "apply_raised", !.plan = s.plan,
                                      !.raised = Raises(s.raises)]
                    ELSE [unit EXCEPT !.phase = "applied", !.plan = s.plan]
    /\ UNCHANGED RunnerVars

\* repairer.revert(plan) on an applied plan.
RepairerRevert ==
    /\ unit.phase = "applied"
    /\ kb' = Revert(kb, unit.plan)
    /\ unit' = [unit EXCEPT !.phase = "reverted"]
    /\ UNCHANGED RunnerVars

\* repairer.revert(plan) on a plan that never went through apply.
RepairerRevertUnapplied ==
    /\ unit.phase = "proposed"
    /\ kb' = Revert(kb, unit.plan)
    /\ unit' = [unit EXCEPT !.phase = "reverted_unapplied"]
    /\ UNCHANGED RunnerVars

\* repairer.revert(plan) on a plan whose apply raised part-way.
RepairerRevertPartial ==
    /\ unit.phase = "apply_raised"
    /\ kb' = Revert(kb, unit.plan)
    /\ unit' = [unit EXCEPT !.phase = "reverted_partial"]
    /\ UNCHANGED RunnerVars

NextRepairer ==
    \/ RepairerApply
    \/ RepairerRevert
    \/ RepairerRevertUnapplied
    \/ RepairerRevertPartial

SpecRepairer == InitRepairer /\ [][NextRepairer]_vars

(***************************************************************************)
(* ResultComparator (src/src/autotest/comparator.py) and the values it     *)
(* meets in result sets.                                                   *)
(*                                                                         *)
(* A Python string is a sequence of one-character strings.  A cell of a    *)
(* row is a Python scalar:                                                 *)
(*   IntCell(v)       the int v;                                           *)
(*   FloatCell(m, e)  the float written m * 10^-e in decimal, 0 <= e <= 10;*)
(*   NaN          float('nan');                                            *)
(*   StrCell(s)       the str s, of ASCII characters;                      *)
(*   NoneCell     None (a SQL NULL).                                       *)
(* Numbers are compared as Python compares them, in IEEE 754 binary64      *)
(* arithmetic: a float is held as sign, 53-bit mantissa and exponent, the  *)
(* mantissa as a natural number of any size.                               *)
(***************************************************************************)
IntCell(v) == [t |-> "int", v |-> v]
FloatCell(m, e) == [t |-> "float", m |-> m, e |-> e]
NaN == [t |-> "nan"]
StrCell(s) == [t |-> "str", s |-> s]
NoneCell == [t |-> "none"]

\* isinstance(c, (int, float))
IsNumeric(c) == c.t \in {"int", "float", "nan"}

IsNaN(c) == c.t = "nan"

\* s < t on Python strings: by the first differing code point, a proper
\* prefix being smaller.
StrLess(s, t) ==
    \E k \in 1..(Len(t)) :
        /\ k <= Len(s) + 1
        /\ \A j \in 1..(k - 1) : s[j] = t[j]
        /\ \/ k = Len(s) + 1
           \/ Ord[s[k]] < Ord[t[k]]

Abs(n) == IF n < 0 THEN -n ELSE n


DigitChars == <<"0", "1", "2", "3", "4", "5", "6", "7", "8", "9">>

\* The decimal digits of n >= 0.
RECURSIVE Digits(_)
Digits(n) ==
    IF n < 10
    THEN <<DigitChars[n + 1]>>
    ELSE Digits(n \div 10) \o <<DigitChars[(n % 10) + 1]>>

RECURSIVE Zeros(_)
Zeros(n) == IF n <= 0 THEN <<>> ELSE <<"0">> \o Zeros(n - 1)

\* d without its trailing zeros (one digit is kept).
RECURSIVE StripZeros(_)
StripZeros(d) ==
    IF Len(d) > 1 /\ d[Len(d)] = "0"
    THEN StripZeros(SubSeq(d, 1, Len(d) - 1))
    ELSE d

\* repr of an int.
ReprInt(v) == IF v < 0 THEN <<"-">> \o Digits(-v) ELSE Digits(v)

\* repr of the float m * 10^-e: the shortest digits, in exponent notation
\* when the decimal point lies more than three zeros before the digits
\* (values below 1e-4), in positional notation otherwise.
ReprFloat(m, e) ==
    LET all   == Digits(Abs(m))
        decpt == Len(all) - e
        d     == StripZeros(all)
        k     == Len(d)
        sign  == IF m < 0 THEN <<"-">> ELSE <<>>
        ex    == Abs(decpt - 1)
    IN  IF m = 0
        THEN <<"0", ".", "0">>
        ELSE sign \o
             (IF decpt <= -4
              THEN <<d[1]>>
                   \o (IF k > 1 THEN <<".">> \o SubSeq(d, 2, k) ELSE <<>>)
                   \o <<"e", "-">>
                   \o (IF ex < 10 THEN <<"0">> ELSE <<>>) \o Digits(ex)
              ELSE IF decpt <= 0
              THEN <<"0", ".">> \o Zeros(-decpt) \o d
              ELSE IF decpt >= k
              THEN d \o Zeros(decpt - k) \o <<".", "0">>
              ELSE SubSeq(d, 1, decpt) \o <<".">> \o SubSeq(d, decpt + 1, k))

HexChars == DigitChars \o <<"a", "b", "c", "d", "e", "f">>

\* The quote repr puts around a str: a double quote when the str holds a
\* single quote and no double quote, a single quote otherwise.
ReprQuote(s) ==
    IF (\E i \in 1..Len(s) : s[i] = "'") /\ ~(\E i \in 1..Len(s) : s[i] = "\"")
    THEN "\""
    ELSE "'"

\* What repr writes for one ASCII character of a str: a backslash before
\* the surrounding quote and before a backslash, the escapes of tab, line
\* feed and carriage return, \xNN for any other control character (below
\* the space, or DEL), and the character itself otherwise.
ReprChar(c, quote) ==
    IF c = quote \/ c = "\\" THEN <<"\\", c>>
    ELSE IF c = "\t" THEN <<"\\", "t">>
    ELSE IF c = "\n" THEN <<"\\", "n">>
    ELSE IF c = "\r" THEN <<"\\", "r">>
    ELSE IF Ord[c] < 32 \/ Ord[c] = 127
    THEN <<"\\", "x", HexChars[(Ord[c] \div 16) + 1], HexChars[(Ord[c] % 16) + 1]>>
    ELSE <<c>>

RECURSIVE ReprChars(_, _)
ReprChars(s, quote) ==
    IF s = <<>> THEN <<>> ELSE ReprChar(Head(s), quote) \o ReprChars(Tail(s), quote)

\* repr of a str.
ReprStr(s) == <<ReprQuote(s)>> \o ReprChars(s, ReprQuote(s)) \o <<ReprQuote(s)>>

\* repr(c) of a cell.
Repr(c) ==
    CASE c.t = "int"   -> ReprInt(c.v)
      [] c.t = "float" -> ReprFloat(c.m, c.e)
      [] c.t = "nan"   -> <<"n", "a", "n">>
      [] c.t = "str"   -> ReprStr(c.s)
      [] c.t = "none"  -> <<"N", "o", "n", "e">>

\* str(row) of a list: "[" + ", ".join(repr(c) for c in row) + "]".
RECURSIVE JoinReprs(_, _)
JoinReprs(row, i) ==
    IF i > Len(row)
    THEN <<>>
    ELSE (IF i > 1 THEN <<",", " ">> ELSE <<>>) \o Repr(row[i]) \o JoinReprs(row, i + 1)

StrOfRow(row) == <<"[">> \o JoinReprs(row, 1) \o <<"]">>

\* Natural numbers of any size: the limbs of n in base Limb, lowest first,
\* without a zero top limb (0 is the empty sequence).
Limb == 32768
LimbBits == 15

RECURSIVE NatTrim(_)
NatTrim(x) ==
    IF x # <<>> /\ x[Len(x)] = 0 THEN NatTrim(SubSeq(x, 1, Len(x) - 1)) ELSE x

NatOfInt(n) == NatTrim(<<n % Limb, (n \div Limb) % Limb, n \div (Limb * Limb)>>)

\* -1, 0 or 1 as x is below, equal to or above y.
RECURSIVE NatCmpFrom(_, _, _)
NatCmpFrom(x, y, i) ==
    IF i = 0 THEN 0
    ELSE IF x[i] < y[i] THEN -1
    ELSE IF x[i] > y[i] THEN 1
    ELSE NatCmpFrom(x, y, i - 1)

NatCmp(x, y) ==
    IF Len(x) < Len(y) THEN -1
    ELSE IF Len(x) > Len(y) THEN 1
    ELSE NatCmpFrom(x, y, Len(x))

RECURSIVE NatAddFrom(_, _, _, _)
NatAddFrom(x, y, i, carry) ==
    IF i > Len(x) /\ i > Len(y)
    THEN IF carry = 0 THEN <<>> ELSE <<carry>>
    ELSE LET s == (IF i <= Len(x) THEN x[i] ELSE 0)
                  + (IF i <= Len(y) THEN y[i] ELSE 0) + carry
         IN  <<s % Limb>> \o NatAddFrom(x, y, i + 1, s \div Limb)

NatAdd(x, y) == NatAddFrom(x, y, 1, 0)

\* x - y, for x >= y.
RECURSIVE NatSubFrom(_, _, _, _)
NatSubFrom(x, y, i, borrow) ==
    IF i > Len(x)
    THEN <<>>
    ELSE LET d == x[i] - (IF i <= Len(y) THEN y[i] ELSE 0) - borrow
         IN  IF d < 0
             THEN <<d + Limb>> \o NatSubFrom(x, y, i + 1, 1)
             ELSE <<d>> \o NatSubFrom(x, y, i + 1, 0)

NatSub(x, y) == NatTrim(NatSubFrom(x, y, 1, 0))

\* x * k, for 0 <= k <= Limb.
RECURSIVE NatMulFrom(_, _, _, _)
NatMulFrom(x, k, i, carry) ==
    IF i > Len(x)
    THEN IF carry = 0 THEN <<>> ELSE <<carry>>
    ELSE LET s == x[i] * k + carry
         IN  <<s % Limb>> \o NatMulFrom(x, k, i + 1, s \div Limb)

NatMul(x, k) == NatMulFrom(x, k, 1, 0)

RECURSIVE NatPow10(_)
NatPow10(n) == IF n = 0 THEN <<1>> ELSE NatMul(NatPow10(n - 1), 10)

\* The number of binary digits of one limb.
BitsOf(n) == CHOOSE k \in 0..LimbBits : n < 2^k /\ (k = 0 \/ 2^(k - 1) <= n)

\* The number of binary digits of x.
NatBits(x) == IF x = <<>> THEN 0 ELSE (Len(x) - 1) * LimbBits + BitsOf(x[Len(x)])

\* x * 2^n
RECURSIVE NatShl(_, _)
NatShl(x, n) ==
    IF x = <<>> THEN <<>>
    ELSE IF n >= LimbBits THEN <<0>> \o NatShl(x, n - LimbBits)
    ELSE IF n > 0 THEN NatMul(x, 2^n)
    ELSE x

\* floor(x / 2^n)
RECURSIVE NatShrBits(_, _, _)
NatShrBits(x, n, i) ==
    IF i > Len(x)
    THEN <<>>
    ELSE <<(x[i] \div 2^n)
           + (IF i < Len(x) THEN (x[i + 1] % 2^n) * 2^(LimbBits - n) ELSE 0)>>
         \o NatShrBits(x, n, i + 1)

RECURSIVE NatShr(_, _)
NatShr(x, n) ==
    IF x = <<>> THEN <<>>
    ELSE IF n >= LimbBits THEN NatShr(Tail(x), n - LimbBits)
    ELSE IF n > 0 THEN NatTrim(NatShrBits(x, n, 1))
    ELSE x

NatIsOdd(x) == x # <<>> /\ x[1] % 2 = 1

\* A float (IEEE 754 binary64) other than the infinities: nan, or
\* (-1)^neg * m * 2^e with m = 0 (and e = 0), or 2^52 <= m < 2^53.
MantBits == 53
Float(neg, m, e) == [neg |-> neg, m |-> m, e |-> e]
FloatNaN == [nan |-> TRUE]
IsFloatNaN(x) == "nan" \in DOMAIN x

\* The float nearest to n * 2^e (ties to the even mantissa): of the width
\* binary digits of n the top MantBits are kept, the drop digits below them
\* decide the rounding, and rounding up may carry into one digit more.
RoundNat(neg, n, e) ==
    LET Carried(rounded, low) ==
            IF NatBits(rounded) > MantBits
            THEN Float(neg, NatShr(rounded, 1), low + 1)
            ELSE Float(neg, rounded, low)
        Up(kept, tie) ==
            IF tie > 0 \/ (tie = 0 /\ NatIsOdd(kept))
            THEN NatAdd(kept, <<1>>)
            ELSE kept
        Dropped(drop, kept) ==
            Carried(Up(kept, NatCmp(NatSub(n, NatShl(kept, drop)),
                                    NatShl(<<1>>, drop - 1))),
                    e + drop)
        Of(width) ==
            IF width = 0 THEN Float(neg, <<>>, 0)
            ELSE IF width <= MantBits
            THEN Float(neg, NatShl(n, MantBits - width), e - (MantBits - width))
            ELSE Dropped(width - MantBits, NatShr(n, width - MantBits))
    IN  Of(NatBits(n))

\* One digit of a long division: the largest k with k * d <= cur, for
\* cur < d * Limb and d with a top limb of at least Limb / 2.  The guess made
\* from the top limbs is never too small and at most 2 too large.
RECURSIVE DigitAtMost(_, _, _)
DigitAtMost(cur, d, guess) ==
    IF NatCmp(NatMul(d, guess), cur) > 0
    THEN DigitAtMost(cur, d, guess - 1)
    ELSE guess

Digit(cur, d) ==
    LET Capped(guess) == IF guess >= Limb THEN Limb - 1 ELSE guess
        top == (IF Len(cur) > Len(d) THEN cur[Len(d) + 1] * Limb ELSE 0)
               + cur[Len(d)]
    IN  IF NatCmp(cur, d) < 0
        THEN 0
        ELSE DigitAtMost(cur, d, Capped(top \div d[Len(d)]))

\* Quotient and remainder of the limbs i, i + 1, ... of n divided by d: the
\* remainder of the limbs above, with limb i below it, gives one more digit.
RECURSIVE NatDivFrom(_, _, _)
NatDivFrom(n, d, i) ==
    LET Emit(above, cur, digit) ==
            [quot |-> <<digit>> \o above.quot,
             rem  |-> NatSub(cur, NatMul(d, digit))]
        With(above, cur) == Emit(above, cur, Digit(cur, d))
        Below(above) == With(above, NatTrim(<<n[i]>> \o above.rem))
    IN  IF i > Len(n)
        THEN [quot |-> <<>>, rem |-> <<>>]
        ELSE CHOOSE r \in { Below(above) : above \in {NatDivFrom(n, d, i + 1)} } : TRUE

\* floor(n / d) and whether the division leaves a remainder, for d > 0: both
\* are shifted so that the top limb of d is at least Limb / 2.
NatDiv(n, d) ==
    LET Result(division) ==
            [quot |-> NatTrim(division.quot), exact |-> division.rem = <<>>]
        Scaled(scale) == Result(NatDivFrom(NatShl(n, scale), NatShl(d, scale), 1))
    IN  Scaled(LimbBits - BitsOf(d[Len(d)]))

\* floor(p * 2^s / q) followed by one more binary digit, which is 1 when the
\* division leaves a remainder.
QuotientBits(p, q, s) ==
    LET Sticky(division) ==
            NatAdd(NatMul(division.quot, 2), IF division.exact THEN <<>> ELSE <<1>>)
    IN  CHOOSE r \in { Sticky(division) : division \in {NatDiv(NatShl(p, s), q)} } : TRUE

\* The binary digits to take after the point so that the quotient of p by q
\* has more than MantBits + 1 of them.
QuotientShift(p, q) ==
    LET AtLeastZero(need) == IF need > 0 THEN need ELSE 0
    IN  AtLeastZero(MantBits + 2 - (NatBits(p) - NatBits(q)))

\* The float nearest to (p / q) * 2^e, for naturals p and q > 0.
RoundRatio(neg, p, q, e) ==
    LET Of(s) == CHOOSE r \in { RoundNat(neg, bits, e - s - 1) :
                                   bits \in {QuotientBits(p, q, s)} } : TRUE
    IN  IF p = <<>>
        THEN Float(neg, <<>>, 0)
        ELSE Of(QuotientShift(p, q))

\* float(c) of a numeric cell: an int of the model is a float exactly, a
\* float cell is the float its decimal literal m * 10^-e denotes.
FloatOf(c) ==
    IF IsNaN(c) THEN FloatNaN
    ELSE IF c.t = "int"
    THEN RoundNat(c.v < 0, NatOfInt(Abs(c.v)), 0)
    ELSE RoundRatio(c.m < 0, NatOfInt(Abs(c.m)), NatPow10(c.e), 0)

\* abs(x)
FAbs(x) == IF IsFloatNaN(x) THEN x ELSE Float(FALSE, x.m, x.e)

\* -1, 0 or 1 as abs(x) is below, equal to or above abs(y), for numbers.
FMagCmp(x, y) ==
    IF x.m = <<>> THEN (IF y.m = <<>> THEN 0 ELSE -1)
    ELSE IF y.m = <<>> THEN 1
    ELSE IF x.e < y.e THEN -1
    ELSE IF x.e > y.e THEN 1
    ELSE NatCmp(x.m, y.m)

\* x < y: False when either is nan.
FLess(x, y) ==
    IF IsFloatNaN(x) \/ IsFloatNaN(y) THEN FALSE
    ELSE IF x.neg /\ x.m # <<>>
    THEN ~(y.neg /\ y.m # <<>>) \/ FMagCmp(x, y) > 0
    ELSE ~(y.neg /\ y.m # <<>>) /\ FMagCmp(x, y) < 0

\* x - y: nan when either is nan; else both mantissas are brought to the
\* lower exponent and the exact difference is rounded.
FSub(x, y) ==
    LET Exact(nx, ny, low) ==
            IF x.neg # y.neg THEN RoundNat(x.neg, NatAdd(nx, ny), low)
            ELSE IF NatCmp(nx, ny) >= 0 THEN RoundNat(x.neg, NatSub(nx, ny), low)
            ELSE RoundNat(~x.neg, NatSub(ny, nx), low)
        At(low) == Exact(NatShl(x.m, x.e - low), NatShl(y.m, y.e - low), low)
    IN  IF IsFloatNaN(x) \/ IsFloatNaN(y) THEN FloatNaN
        ELSE IF x.m = <<>> THEN Float(~y.neg, y.m, y.e)
        ELSE IF y.m = <<>> THEN x
        ELSE At(IF x.e < y.e THEN x.e ELSE y.e)

\* x / y, for y other than 0: nan when either is nan.
FDiv(x, y) ==
    IF IsFloatNaN(x) \/ IsFloatNaN(y) THEN FloatNaN
    ELSE RoundRatio(x.neg # y.neg, x.m, y.m, x.e - y.e)

\* max(x, y): the first argument unless the second is greater, which a nan
\* never is.
FMax(x, y) == IF FLess(x, y) THEN y ELSE x

FIsZero(x) == ~IsFloatNaN(x) /\ x.m = <<>>

\* abs(a - b)
AbsDiff(x, y) == FAbs(FSub(x, y))

\* comparator.py line 132: the float 1e-9.
ZeroEps == FloatOf(FloatCell(1, 9))

\* comparator.py line 132: abs(c) < 1e-9 (False for nan).
NearZero(x) == FLess(FAbs(x), ZeroEps)

\* A tolerance is held as its inverse: tolinv stands for the float that the
\* decimal literal of 1 / tolinv denotes (0.01, 0.0001).
DefaultTolInv == 10000
Tolerances == {100, DefaultTolInv}
Tolerance(tolinv) == RoundRatio(FALSE, <<1>>, NatOfInt(tolinv), 0)

\* comparator.py line 134: abs(a - b) / max(abs(a), abs(b)) > tolerance, for
\* a divisor other than 0, in float arithmetic: the difference and the
\* quotient are each rounded to the nearest float.
RelDiffExceeds(x, y, tolerance) ==
    \E difference \in {AbsDiff(x, y)} :
        \E quotient \in {FDiv(difference, FMax(FAbs(x), FAbs(y)))} :
            FLess(tolerance, quotient)

\* comparator.py lines 131-137: one pair of cells, numeric ones as floats.
\* With a nan on either side abs(a - b) is nan; max(abs(a), abs(b)) is abs(a)
\* unless abs(b) is greater, which a nan never is, so the division is by
\* abs(a) when b is nan: by zero when a is 0.  nan > tolerance is False.
CellVerdict(a, b, tolinv) ==
    LET Numbers(x, y) ==
            IF NearZero(x) /\ NearZero(y)
            THEN Returns(TRUE)
            ELSE IF FIsZero(FMax(FAbs(x), FAbs(y)))
            THEN Raises("ZeroDivisionError")
            ELSE Returns(~RelDiffExceeds(x, y, Tolerance(tolinv)))
    IN  IF IsNumeric(a) /\ IsNumeric(b)
        THEN Numbers(FloatOf(a), FloatOf(b))
        ELSE Returns(a = b)

\* ResultComparator._rows_equal, from position i of zip(row_a, row_b) on.
RECURSIVE RowsEqualFrom(_, _, _, _)
RowsEqualFrom(row_a, row_b, i, tolinv) ==
    LET After(v) ==
            IF v = Returns(TRUE)
            THEN RowsEqualFrom(row_a, row_b, i + 1, tolinv)
            ELSE v
    IN  IF i > Len(row_a)
        THEN Returns(TRUE)
        ELSE After(CellVerdict(row_a[i], row_b[i], tolinv))

\* ResultComparator._rows_equal(row_a, row_b)
RowsEqual(row_a, row_b, tolinv) ==
    IF Len(row_a) # Len(row_b)
    THEN Returns(FALSE)
    ELSE RowsEqualFrom(row_a, row_b, 1, tolinv)

\* The Runner is not part of a unit-level specification, whose knowledge
\* base is one of kbs.
RunnerUnusedOver(kbs) ==
    /\ kb \in kbs
    /\ max_retries = 0
    /\ max_llm_calls = 0
    /\ no_repair = FALSE
    /\ dry_run = FALSE
    /\ cases = <<>>
    /\ llm_calls = 0
    /\ pc = "unit"
    /\ case_idx = 0
    /\ RunnerLocals
    /\ results = <<>>
    /\ summary = Null
    /\ raised = Null
    /\ hist = HistInit(kb, 0)
    /\ done_hist = <<>>
    /\ runs = 0

RunnerUnused == RunnerUnusedOver(InitialKBs)

(***************************************************************************)
(* SpecCells: _rows_equal called on every pair of one-cell rows over Cells *)
(* and on rows of unequal length, under every tolerance of Tolerances.     *)
(* unit = [phase, row_a, row_b, tolinv] and, once called, verdict.         *)
(***************************************************************************)
Cells ==
    { IntCell(0), IntCell(1), IntCell(-1), IntCell(9999), IntCell(10000),
      FloatCell(0, 0), FloatCell(1, 0), FloatCell(10049, 4), FloatCell(99, 2),
      FloatCell(5, 10), FloatCell(-5, 10), FloatCell(1, 9), NaN, StrCell(<<"1">>), StrCell(<<"I", "D">>), NoneCell }

InitCells ==
    /\ RunnerUnused
    /\ \E a \in Cells, b \in Cells, tolinv \in Tolerances :
         \/ unit = [phase |-> "rows", row_a |-> <<a>>, row_b |-> <<b>>, tolinv |-> tolinv]
         \/ unit = [phase |-> "rows", row_a |-> <<a, b>>, row_b |-> <<a>>, tolinv |-> tolinv]

\* self._rows_equal(row_a, row_b)
RowsEqualCall ==
    /\ unit.phase = "rows"
    /\ unit' = [phase |-> "judged", row_a |-> unit.row_a, row_b |-> unit.row_b,
                tolinv |-> unit.tolinv,
                verdict |-> RowsEqual(unit.row_a, unit.row_b, unit.tolinv)]
    /\ UNCHANGED <<kb, RunnerVars>>

NextCells == RowsEqualCall

SpecCells == InitCells /\ [][NextCells]_vars

(***************************************************************************)
(* ResultComparator.compare                                                *)
(***************************************************************************)

\* QueryResult(columns, rows, error)
QueryResult(columns, rows, error) == [columns |-> columns, rows |-> rows, error |-> error]

\* A has_error that reports no error.
HasErrorNever(qr) == FALSE

\* QueryResult.has_error
HasError(qr) == qr.error # None

\* A sort that leaves the rows as they came.
SortedRowsUnsorted(rows) == rows

\* sorted(rows, key=str): a stable sort on the string form of each row.  The
\* row at position i goes behind every row with a smaller key and every
\* earlier row with the same key.
SortedRows(rows) ==
    LET n       == Len(rows)
        key     == [i \in 1..n |-> StrOfRow(rows[i])]
        rank(i) == 1 + Cardinality({ j \in 1..n : \/ StrLess(key[j], key[i])
                                                  \/ key[j] = key[i] /\ j < i })
    IN  [r \in 1..n |-> rows[CHOOSE i \in 1..n : rank(i) = r]]

\* sorted(columns): the column names in string order.
SortedColumns(columns) ==
    LET n       == Len(columns)
        rank(i) == 1 + Cardinality({ j \in 1..n : \/ StrLess(columns[j], columns[i])
                                                  \/ columns[j] = columns[i] /\ j < i })
    IN  [r \in 1..n |-> columns[CHOOSE i \in 1..n : rank(i) = r]]

\* comparator.py line 118: the cap on sampled row differences.
SampleCap == 5

\* A loop that stops at the end of the shorter side.
max_rows_shorter(exp_rows, gen_rows) ==
    IF Len(exp_rows) < Len(gen_rows) THEN Len(exp_rows) ELSE Len(gen_rows)

\* comparator.py line 106: max_rows = max(len(exp_rows), len(gen_rows))
max_rows(exp_rows, gen_rows) ==
    IF Len(exp_rows) > Len(gen_rows) THEN Len(exp_rows) ELSE Len(gen_rows)

\* comparator.py lines 107-125: the loop over the sorted positions from i on
\* (i counts from 1; the texts carry Python's index i - 1), then the result.
RECURSIVE CompareRowsFrom(_, _, _, _, _, _)
CompareRowsFrom(exp_rows, gen_rows, i, mismatches, diffs, tolinv) ==
    LET After(v) ==
            IF v = Returns(TRUE)
            THEN CompareRowsFrom(exp_rows, gen_rows, i + 1, mismatches, diffs, tolinv)
            ELSE IF v = Returns(FALSE)
            THEN CompareRowsFrom(exp_rows, gen_rows, i + 1, mismatches + 1,
                                 IF Len(diffs) < SampleCap
                                 THEN Append(diffs, [row |-> i - 1,
                                                     expected |-> exp_rows[i],
                                                     got |-> gen_rows[i]])
                                 ELSE diffs,
                                 tolinv)
            ELSE v
    IN  IF i > max_rows(exp_rows, gen_rows)
        THEN Returns(ResultCompareResult(mismatches = 0, <<>>, mismatches, diffs))
        ELSE IF i > Len(exp_rows)
        THEN CompareRowsFrom(exp_rows, gen_rows, i + 1, mismatches + 1,
                             Append(diffs, [row |-> i - 1, text |-> "missing in expected"]),
                             tolinv)
        ELSE IF i > Len(gen_rows)
        THEN CompareRowsFrom(exp_rows, gen_rows, i + 1, mismatches + 1,
                             Append(diffs, [row |-> i - 1, text |-> "missing in generated"]),
                             tolinv)
        ELSE After(RowsEqual(exp_rows[i], gen_rows[i], tolinv))

\* ResultComparator(tolerance = 1 / tolinv).compare(expected, generated)
Compare(expected, generated, tolinv) ==
    IF HasError(expected)
    THEN Returns(ResultCompareResult(FALSE,
                    <<[text |-> "Expected SQL error", error |-> expected.error]>>, 0, <<>>))
    ELSE IF HasError(generated)
    THEN Returns(ResultCompareResult(FALSE,
                    <<[text |-> "Generated SQL error", error |-> generated.error]>>, 0, <<>>))
    ELSE IF SortedColumns(expected.columns) # SortedColumns(generated.columns)
    THEN Returns(ResultCompareResult(FALSE,
                    <<[text |-> "Expected columns",
                       expected |-> SortedColumns(expected.columns),
                       got |-> SortedColumns(generated.columns)]>>, 0, <<>>))
    ELSE CompareRowsFrom(SortedRows(expected.rows), SortedRows(generated.rows),
                         1, 0, <<>>, tolinv)

(***************************************************************************)
(* SpecCompare: compare called on every pair of result sets of             *)
(* QueryResults, in both argument orders, under every tolerance.           *)
(* unit = [phase, expected, generated, tolinv], then fwd = what            *)
(* compare(expected, generated) did, then bwd = what                       *)
(* compare(generated, expected) did.                                       *)
(***************************************************************************)
MaxRows == 2              \* SpecCompare: one-column result sets of at most MaxRows rows

CompareCells == { IntCell(0), NaN, IntCell(5), IntCell(10), FloatCell(999, 2) }

\* One-column result sets over CompareCells.
OneColumnResults ==
    { QueryResult(<<<<"c">>>>, rows, None) :
        rows \in SeqsUpTo({ <<x>> : x \in CompareCells }, MaxRows) }

\* Two-column result sets: the two rows ('ID', 1000), ('TH', 2000) in both
\* orders, the same with the columns listed in the other order, and with
\* columns and cells both in the other order.
TwoColumnResults ==
    LET id == <<StrCell(<<"I", "D">>), IntCell(1000)>>
        th == <<StrCell(<<"T", "H">>), IntCell(2000)>>
    IN  { QueryResult(<<<<"c">>, <<"d">>>>, <<id, th>>, None),
          QueryResult(<<<<"c">>, <<"d">>>>, <<th, id>>, None),
          QueryResult(<<<<"d">>, <<"c">>>>, <<id, th>>, None),
          QueryResult(<<<<"d">>, <<"c">>>>, <<<<id[2], id[1]>>, <<th[2], th[1]>>>>, None),
          QueryResult(<<<<"c">>, <<"d">>>>, <<id>>, None) }

\* Result sets of a failed execution, and one with another column.
OtherResults ==
    { QueryResult(<<>>, <<>>, "syntax error"),
      QueryResult(<<<<"c">>>>, <<<<IntCell(5)>>>>, "timeout"),
      QueryResult(<<<<"d">>>>, <<<<IntCell(5)>>>>, None) }

\* Result sets of two rows of one str each, over strs that repr writes with
\* an escape or between double quotes, and strs it writes as they are.
StringCells ==
    { StrCell(<<"\t">>), StrCell(<<"\f">>), StrCell(<<"'">>), StrCell(<<"\"">>),
      StrCell(<<"'", "\"">>), StrCell(<<"\\">>), StrCell(<<"[">>), StrCell(<<"a">>) }

StringResults ==
    { QueryResult(<<<<"c">>>>, <<<<x>>, <<y>>>>, None) : x \in StringCells, y \in StringCells }

\* Result sets with one row more than the cap on sampled differences: the
\* same row SampleCap + 1 times, for two different rows.
LongResults ==
    { QueryResult(<<<<"c">>>>, [k \in 1..(SampleCap + 1) |-> <<x>>], None) :
        x \in {IntCell(5), IntCell(0)} }

QueryResults ==
    OneColumnResults \cup TwoColumnResults \cup OtherResults \cup LongResults
        \cup StringResults

InitCompare ==
    /\ RunnerUnused
    /\ \E e \in QueryResults, g \in QueryResults, tolinv \in Tolerances :
         unit = [phase |-> "inputs", expected |-> e, generated |-> g, tolinv |-> tolinv]

\* comparator.compare(expected, generated)
CompareCall ==
    /\ unit.phase = "inputs"
    /\ unit' = [phase |-> "compared", expected |-> unit.expected,
                generated |-> unit.generated, tolinv |-> unit.tolinv,
                fwd |-> Compare(unit.expected, unit.generated, unit.tolinv)]
    /\ UNCHANGED <<kb, RunnerVars>>

\* comparator.compare(generated, expected): the arguments swapped.
CompareSwappedCall ==
    /\ unit.phase = "compared"
    /\ unit' = [phase |-> "swapped", expected |-> unit.expected,
                generated |-> unit.generated, tolinv |-> unit.tolinv,
                fwd |-> unit.fwd,
                bwd |-> Compare(unit.generated, unit.expected, unit.tolinv)]
    /\ UNCHANGED <<kb, RunnerVars>>

NextCompare ==
    \/ CompareCall
    \/ CompareSwappedCall

SpecCompare == InitCompare /\ [][NextCompare]_vars

(***************************************************************************)
(* StructuralComparator.compare                                            *)
(***************************************************************************)

\* A Python dict and a Python list, as the oracle client hands them over.
PyDict(fields) == [dict |-> fields]
PyList(items) == [list |-> items]

\* The objects a JSON answer of the oracle parses into: an object with or
\* without a match field and with or without a differences field, or a list.
OracleObjects ==
    LET matches     == { <<>>, "match" :> TRUE, "match" :> FALSE }
        differences == { <<>>, "differences" :> <<>>,
                         "differences" :> <<"wrong table">>,
                         "differences" :> <<"wrong table", "missing filter">> }
    IN  { PyDict(m @@ d) : m \in matches, d \in differences } \cup { PyList(<<>>) }

\* llm.call(...) / backend.generate_json(...): the parsed answer, or the
\* error json.loads raises on text that is not JSON.
OracleReplies ==
    { Returns(o) : o \in OracleObjects } \cup { Raises("JSONDecodeError") }

\* comparator.py lines 47-50: the message carries both SQL strings.
UserMessage(expected, generated) ==
    [expected_sql |-> expected, generated_sql |-> generated]

\* comparator.py lines 51-64: the reply of the oracle client is read with
\* result.get; an error of the client passes through, and a reply that is
\* not a dict has no get.
StructuralComparatorCompare(reply) ==
    IF "raises" \in DOMAIN reply
    THEN reply
    ELSE IF "dict" \notin DOMAIN reply.returns
    THEN Raises("AttributeError")
    ELSE Returns(StructuralCompare(reply.returns.dict))

(***************************************************************************)
(* SpecStructural: StructuralComparator.compare called once, on either     *)
(* client path, for every reply of OracleReplies.                          *)
(* unit = [phase, expected_sql, generated_sql, use_legacy, reply], then    *)
(* user_message = what the oracle was sent and outcome = what compare did. *)
(***************************************************************************)
SqlTexts == { SqlOfCall(1), SqlOfCall(2) }

InitStructural ==
    /\ RunnerUnused
    /\ \E e \in SqlTexts, g \in SqlTexts, legacy \in BOOLEAN, reply \in OracleReplies :
         unit = [phase |-> "inputs", expected_sql |-> e, generated_sql |-> g,
                 use_legacy |-> legacy, reply |-> reply]

\* comparator.compare(expected_sql, generated_sql)
StructuralCompareCall ==
    /\ unit.phase = "inputs"
    /\ unit' = [phase |-> "compared", expected_sql |-> unit.expected_sql,
                generated_sql |-> unit.generated_sql, use_legacy |-> unit.use_legacy,
                reply |-> unit.reply,
                user_message |-> UserMessage(unit.expected_sql, unit.generated_sql),
                outcome |-> StructuralComparatorCompare(unit.reply)]
    /\ UNCHANGED <<kb, RunnerVars>>

NextStructural == StructuralCompareCall

SpecStructural == InitStructural /\ [][NextStructural]_vars

(***************************************************************************)
(* BenchmarkLoader (src/src/autotest/loader.py)                            *)
(***************************************************************************)
MaxFileCases == 2         \* SpecLoader: records in the benchmark file

\* BenchmarkCase(id, question, expected_sql, tags)
BenchmarkCase(id, question, expected_sql, tags) ==
    [id |-> id, question |-> question, expected_sql |-> expected_sql, tags |-> tags]

\* The characters str.strip() removes: the code points str.isspace accepts
\* (the ASCII controls \t \n \v \f \r and FS GS RS US, the space, NEL, the
\* no-break space, and the Unicode spaces and line / paragraph separators).
Whitespace ==
    {9, 10, 11, 12, 13, 28, 29, 30, 31, 32, 133, 160, 5760} \cup (8192..8202)
        \cup {8232, 8233, 8239, 8287, 12288}

\* str.strip(): the text without its leading and trailing whitespace.
RECURSIVE Strip(_)
Strip(s) ==
    IF s.str = <<>> THEN s
    ELSE IF s.str[1] \in Whitespace THEN Strip(Str(Tail(s.str)))
    ELSE IF s.str[Len(s.str)] \in Whitespace
    THEN Strip(Str(SubSeq(s.str, 1, Len(s.str) - 1)))
    ELSE s

\* The records a benchmark file may hold under `cases`: complete ones (with
\* tags, without the tags key, two with the same id), and ones that lack a
\* mandatory key.  Their SQL texts end in a Windows line end, are wrapped in
\* a form feed and a vertical tab around inner whitespace, are wrapped in
\* Unicode spaces, or hold nothing but whitespace.
FileRecords ==
    LET sql1 == Text("SEL 1\r\n")
        sql2 == Str(<<12>> \o Text(" SEL\t2 ").str \o <<11>>)
        sql3 == Str(<<160, 8195>> \o Text("SEL 1").str \o <<12288, 133>>)
        sql4 == Str(<<28, 31, 8232, 13>>)
    IN  { [id |-> "case_a", question |-> "Q A", expected_sql |-> sql1, tags |-> <<"ads">>],
          [id |-> "case_b", question |-> "Q B", expected_sql |-> sql2, tags |-> <<"traffic">>],
          [id |-> "case_c", question |-> "Q C", expected_sql |-> sql3],
          [id |-> "case_a", question |-> "Q A2", expected_sql |-> sql4,
           tags |-> <<"traffic", "gmv">>],
          [question |-> "Q", expected_sql |-> sql1, tags |-> <<"ads">>],
          [id |-> "case_q", expected_sql |-> sql1],
          [id |-> "case_s", question |-> "Q S", tags |-> <<"ads">>] }

\* yaml.safe_load(f): a mapping with the records under `cases`, a mapping
\* without that key, nothing (an empty file), or the error on text that is
\* not YAML.
Documents ==
    { Returns(PyDict([cases |-> rs])) : rs \in SeqsUpTo(FileRecords, MaxFileCases) }
        \cup { Returns(PyDict([benchmarks |-> <<>>])), Returns(Null), Raises("YAMLError") }

\* loader.py lines 36 and 38: `if case_id:` and `if tags:`.
CaseIdGiven(case_id) == case_id # None /\ case_id # ""
TagsGiven(tags) == tags # Null /\ tags.list # <<>>

\* loader.py lines 26-34: one BenchmarkCase per record.
BuildCase(c) ==
    BenchmarkCase(c.id, c.question, Strip(c.expected_sql), Get(c, "tags", <<>>))

\* loader.py lines 36-41: the two filters, one after the other.
FilterCases(built, tags, case_id) ==
    LET HasId(c)  == c.id = case_id
        HasTag(c) == \E i \in 1..Len(tags.list), j \in 1..Len(c.tags) :
                        tags.list[i] = c.tags[j]
        by_id     == IF CaseIdGiven(case_id) THEN SelectSeq(built, HasId) ELSE built
    IN  IF TagsGiven(tags) THEN SelectSeq(by_id, HasTag) ELSE by_id

\* BenchmarkLoader.load(tags, case_id) on the document safe_load gave.
Load(doc, tags, case_id) ==
    IF "raises" \in DOMAIN doc
    THEN doc
    ELSE IF doc.returns = Null
    THEN Raises("TypeError")
    ELSE IF "cases" \notin DOMAIN doc.returns.dict
    THEN Raises("KeyError")
    ELSE LET recs == doc.returns.dict.cases
         IN  IF \E i \in 1..Len(recs) :
                   ~({"id", "question", "expected_sql"} \subseteq DOMAIN recs[i])
             THEN Raises("KeyError")
             ELSE Returns(FilterCases([i \in 1..Len(recs) |-> BuildCase(recs[i])],
                                      tags, case_id))

(***************************************************************************)
(* SpecLoader: BenchmarkLoader.load called once on every document of       *)
(* Documents, with and without tags and a case id.                         *)
(* unit = [phase, doc, tags, case_id], then outcome = what load did.       *)
(***************************************************************************)
TagsArguments == { Null, PyList(<<"ads">>), PyList(<<"traffic">>), PyList(<<"gmv", "ads">>) }

CaseIdArguments == { None, "case_a", "case_b", "case_z" }

InitLoader ==
    /\ RunnerUnused
    /\ \E doc \in Documents, tags \in TagsArguments, case_id \in CaseIdArguments :
         unit = [phase |-> "inputs", doc |-> doc, tags |-> tags, case_id |-> case_id]

\* loader.load(tags=tags, case_id=case_id)
LoadCall ==
    /\ unit.phase = "inputs"
    /\ unit' = [phase |-> "loaded", doc |-> unit.doc, tags |-> unit.tags,
                case_id |-> unit.case_id,
                outcome |-> Load(unit.doc, unit.tags, unit.case_id)]
    /\ UNCHANGED <<kb, RunnerVars>>

NextLoader == LoadCall

SpecLoader == InitLoader /\ [][NextLoader]_vars

(***************************************************************************)
(* SpecCycles: the repair cycles of two cases, each an apply followed by a *)
(* revert of its own one-action plan, running concurrently over one        *)
(* knowledge base; and, beside them, the cycles as run_all runs them (the  *)
(* Runner above).  The Repairer takes no lock, so a step of a concurrent   *)
(* cycle is one call on the file system: os.path.exists, open, the fstat   *)
(* and each read of f.read(), os.makedirs, open(file, "w"), write and      *)
(* close, os.remove.  A cycle whose call raises ends there.                *)
(* unit = [phase, kb0, plans, at, fd, detached, bufsize, got, error,       *)
(* order]: plans[c] is the plan of cycle c, at[c] how far the cycle is,    *)
(* fd[c] the state of the file it has open, detached[c] the bytes of that  *)
(* file once it has been removed from the knowledge base, bufsize[c] the   *)
(* size of the buffer f.read() is filling and got[c] the bytes it has read *)
(* so far, error[c] the exception that ended the cycle, order the cycles   *)
(* in the order they took steps (a run of steps of one cycle is listed     *)
(* once).                                                                  *)
(* at[c]: "proposed", then inside apply "found" (the file exists),         *)
(* "reading" (the file is open for reading), "sized" (f.read() has asked   *)
(* for the size of the file), "saved" (_original is set),                  *)
(* "made" (the directory is there), "opened" (the file is open for         *)
(* writing), then "applied"; inside revert "reopened" (the file is open    *)
(* for writing) or "refound" (the file to remove exists), then "reverted"; *)
(* "raised" and "revert_raised" when a call raised.                        *)
(* fd[c]: "closed", "open" (the open file is the one the knowledge base    *)
(* has under that name) or "unlinked" (the other cycle removed it: the     *)
(* cycle still reads and writes it, and no file name leads to it).         *)
(***************************************************************************)
Cycles == {1, 2}

CyclePlans == { RepairPlan(<<a>>, "fix") : a \in Actions }

\* The knowledge bases the cycles start from: the snippet holds a text as
\* long as those the plans write, or a shorter one, which a read that the
\* other cycle's write falls into extends with the end of the written text.
CycleKBs ==
    { [f \in Files |-> IF f = "snippets/dau.sql" THEN snippet ELSE Absent] :
        snippet \in {Ascii("original"), Ascii("orig")} }

InitCycles ==
    /\ RunnerUnusedOver(CycleKBs)
    /\ \E p1 \in CyclePlans, p2 \in CyclePlans :
         unit = [phase |-> "cycles", kb0 |-> kb,
                 plans |-> <<p1, p2>>, at |-> <<"proposed", "proposed">>,
                 fd |-> <<"closed", "closed">>, detached |-> << <<>>, <<>> >>,
                 bufsize |-> <<0, 0>>, got |-> << <<>>, <<>> >>,
                 error |-> <<None, None>>, order |-> <<>>]

\* The one action of the plan of cycle c.
CycleAction(c) == unit.plans[c].actions[1]

\* Cycle c takes a step.
Stepped(order, c) ==
    IF order # <<>> /\ order[Len(order)] = c THEN order ELSE Append(order, c)

\* Cycle c is at position `from`.
CycleAt(c, from) ==
    /\ pc = "unit"
    /\ unit.at[c] = from

\* The file of cycle c is closed at the end of its with block.
Closed(c, to) ==
    [unit EXCEPT !.at[c] = to, !.fd[c] = "closed", !.detached[c] = <<>>,
                 !.bufsize[c] = 0, !.got[c] = <<>>,
                 !.order = Stepped(@, c)]

\* The call of cycle c raised exception e; the position tells whether apply
\* or revert was running.
CycleRaises(c, to, e) == [Closed(c, to) EXCEPT !.error[c] = e]

\* A file after `data` was written at its start: what it held beyond the
\* written bytes is still there.
Overwritten(old, data) == data \o SubSeq(old, Len(data) + 1, Len(old))

\* open(file, "w") by cycle c: the file is created, or emptied.
OpenForWriting(c, to) ==
    /\ kb' = [kb EXCEPT ![CycleAction(c).file] = Bytes(<<>>)]
    /\ unit' = [unit EXCEPT !.at[c] = to, !.fd[c] = "open",
                            !.order = Stepped(@, c)]

\* f.write(text) and the close that ends the with block, by cycle c: the
\* encoded text goes to the start of the file that was opened, which is not
\* in the knowledge base any more if it was removed in the meantime.
WriteAndClose(c, text, to) ==
    LET file == CycleAction(c).file
        encoded == Encode(text)
    IN  IF "raises" \in DOMAIN encoded
        THEN /\ kb' = kb
             /\ unit' = CycleRaises(c, "raised", encoded.raises)
        ELSE /\ kb' = IF unit.fd[c] = "open"
                      THEN [kb EXCEPT ![file] =
                               Bytes(Overwritten(kb[file].bytes, encoded.returns))]
                      ELSE kb
             /\ unit' = Closed(c, to)

\* repairer.py line 123: os.path.exists(action.file); line 127 when it is
\* False.
ApplyExists(c) ==
    /\ CycleAt(c, "proposed")
    /\ kb' = kb
    /\ unit' = [unit EXCEPT !.at[c] = IF kb[CycleAction(c).file] # Absent
                                      THEN "found" ELSE "saved",
                            !.order = Stepped(@, c)]
    /\ UNCHANGED RunnerVars

\* repairer.py line 124: open(action.file), which fails when the file has
\* been removed since line 123.
ApplyOpenRead(c) ==
    /\ CycleAt(c, "found")
    /\ kb' = kb
    /\ unit' = IF kb[CycleAction(c).file] = Absent
               THEN CycleRaises(c, "raised", "FileNotFoundError")
               ELSE [unit EXCEPT !.at[c] = "reading", !.fd[c] = "open",
                                 !.order = Stepped(@, c)]
    /\ UNCHANGED RunnerVars

\* The bytes of the file cycle c has open: what the knowledge base has
\* under its name, or what it held when it was removed.
Held(c) ==
    IF unit.fd[c] = "open" THEN kb[CycleAction(c).file].bytes ELSE unit.detached[c]

\* The buffer f.read() starts with for a file of `size` bytes: one byte more
\* than the file, so that the read that fills it meets the end of the file;
\* a chunk when the file is empty.
BufSize(size) == IF size > 0 THEN size + 1 ELSE 8192

\* The size a full buffer of `currentsize` bytes grows to.
NewBufferSize(currentsize) ==
    currentsize + (IF currentsize > 65536 THEN currentsize \div 8
                   ELSE IF 256 + currentsize < 8192 THEN 8192
                   ELSE 256 + currentsize)

\* repairer.py line 125, f.read(): it first asks for the size of the open
\* file (fstat) and makes its buffer of it.
ApplyReadSize(c) ==
    /\ CycleAt(c, "reading")
    /\ kb' = kb
    /\ unit' = [unit EXCEPT !.at[c] = "sized", !.bufsize[c] = BufSize(Len(Held(c))),
                            !.order = Stepped(@, c)]
    /\ UNCHANGED RunnerVars

\* repairer.py line 125, f.read(): one read of the open file, which takes
\* the bytes the file holds now after those read so far, as many as the
\* buffer has room for; a buffer that is full then is enlarged.  The read
\* that finds nothing ends f.read(): the bytes read are decoded,
\* action._original is set and the file is closed.
ApplyRead(c) ==
    /\ CycleAt(c, "sized")
    /\ kb' = kb
    /\ LET got == unit.got[c]
           Chunk(held) ==
               SubSeq(held, Len(got) + 1,
                      IF Len(held) < unit.bufsize[c] THEN Len(held) ELSE unit.bufsize[c])
           Saved(read) ==
               IF "raises" \in DOMAIN read
               THEN CycleRaises(c, "raised", read.raises)
               ELSE [Closed(c, "saved") EXCEPT !.plans[c].actions[1].original =
                                                   read.returns]
           ReadOn(bytes) ==
               [unit EXCEPT !.got[c] = bytes,
                            !.bufsize[c] = IF Len(bytes) >= @
                                           THEN NewBufferSize(Len(bytes)) ELSE @,
                            !.order = Stepped(@, c)]
       IN  unit' = IF Chunk(Held(c)) = <<>>
                   THEN Saved(ReadText(got))
                   ELSE ReadOn(got \o Chunk(Held(c)))
    /\ UNCHANGED RunnerVars

\* repairer.py line 129: os.makedirs(os.path.dirname(action.file)).
ApplyMakedirs(c) ==
    /\ CycleAt(c, "saved")
    /\ kb' = kb
    /\ unit' = IF MakedirsRaises(Dirname(CycleAction(c).file))
               THEN CycleRaises(c, "raised", "FileNotFoundError")
               ELSE [unit EXCEPT !.at[c] = "made", !.order = Stepped(@, c)]
    /\ UNCHANGED RunnerVars

\* repairer.py line 130: open(action.file, "w").
ApplyOpenWrite(c) ==
    /\ CycleAt(c, "made")
    /\ OpenForWriting(c, "opened")
    /\ UNCHANGED RunnerVars

\* repairer.py lines 130-131: f.write(action.content), and the file is closed.
ApplyWrite(c) ==
    /\ CycleAt(c, "opened")
    /\ WriteAndClose(c, CycleAction(c).content, "applied")
    /\ UNCHANGED RunnerVars

\* repairer.apply(plan) of cycle c, call by call.
CycleApply(c) ==
    \/ ApplyExists(c)
    \/ ApplyOpenRead(c)
    \/ ApplyReadSize(c)
    \/ ApplyRead(c)
    \/ ApplyMakedirs(c)
    \/ ApplyOpenWrite(c)
    \/ ApplyWrite(c)

\* repairer.py lines 135-136: open(action.file, "w") when _original is set.
RevertOpen(c) ==
    /\ CycleAt(c, "applied")
    /\ CycleAction(c).original # Null
    /\ OpenForWriting(c, "reopened")
    /\ UNCHANGED RunnerVars

\* A revert that writes the content of its plan once more.
RevertWriteContent(c) ==
    /\ CycleAt(c, "reopened")
    /\ WriteAndClose(c, CycleAction(c).content, "reverted")
    /\ UNCHANGED RunnerVars

\* repairer.py lines 136-137: f.write(action._original), and the file is
\* closed.
RevertWrite(c) ==
    /\ CycleAt(c, "reopened")
    /\ WriteAndClose(c, CycleAction(c).original, "reverted")
    /\ UNCHANGED RunnerVars

\* repairer.py line 138: os.path.exists(action.file) when _original is None.
RevertExists(c) ==
    /\ CycleAt(c, "applied")
    /\ CycleAction(c).original = Null
    /\ kb' = kb
    /\ unit' = [unit EXCEPT !.at[c] = IF kb[CycleAction(c).file] # Absent
                                      THEN "refound" ELSE "reverted",
                            !.order = Stepped(@, c)]
    /\ UNCHANGED RunnerVars

\* repairer.py line 139: os.remove(action.file), which fails when the file
\* has been removed since line 138.  A file the other cycle has open stays
\* with that cycle, as it is, out of the knowledge base.
RevertRemove(c) ==
    /\ CycleAt(c, "refound")
    /\ LET file == CycleAction(c).file
           Holds(b) == b # c /\ unit.fd[b] = "open" /\ CycleAction(b).file = file
       IN  IF kb[file] = Absent
           THEN /\ kb' = kb
                /\ unit' = CycleRaises(c, "revert_raised", "FileNotFoundError")
           ELSE /\ kb' = [kb EXCEPT ![file] = Absent]
                /\ unit' = [unit EXCEPT
                              !.at[c] = "reverted",
                              !.fd = [b \in Cycles |->
                                        IF Holds(b) THEN "unlinked" ELSE unit.fd[b]],
                              !.detached = [b \in Cycles |->
                                        IF Holds(b) THEN kb[file].bytes
                                        ELSE unit.detached[b]],
                              !.order = Stepped(@, c)]
    /\ UNCHANGED RunnerVars

\* repairer.revert(plan) of cycle c, call by call.
CycleRevert(c) ==
    \/ RevertOpen(c)
    \/ RevertWrite(c)
    \/ RevertExists(c)
    \/ RevertRemove(c)

NextCycles ==
    \/ \E c \in Cycles : CycleApply(c)
    \/ \E c \in Cycles : CycleRevert(c)

\* Two concurrent cycles, or a run of run_all.
SpecCycles == (InitCycles \/ Init) /\ [][NextCycles \/ Next]_vars

(***************************************************************************)
(* Vocabulary of the properties.                                           *)
(***************************************************************************)

\* The files a plan's actions name.
Touched(p) == { p.actions[i].file : i \in 1..Len(p.actions) }

\* What a plan writes to file f: the content of its last action naming f.
PlanContent(p, f) ==
    LET is == { i \in 1..Len(p.actions) : p.actions[i].file = f }
        last == CHOOSE i \in is : \A j \in is : j <= i
    IN  p.actions[last].content

\* The disk holds, for every file the plan names, what the plan writes there:
\* the bytes of the text, unchanged.
HoldsPlan(disk, p) ==
    \A f \in Touched(p) :
        LET encoded == Encode(PlanContent(p, f))
        IN  "returns" \in DOMAIN encoded /\ disk[f] = Bytes(encoded.returns)

Finished == 1..Len(results)

Mismatches == {"structural_mismatch", "result_mismatch"}

Last(q) == q[Len(q)]

(***************************************************************************)
(* C1. The total number of oracle calls made (agent.ask, structural        *)
(* comparison, propose) never exceeds max_llm_calls.                       *)
(* The code checks the budget only at the head of a retry attempt and then *)
(* makes up to three calls; the first two calls of a case are unchecked.   *)
(***************************************************************************)
C1_CallsWithinBudget == llm_calls <= max_llm_calls

(***************************************************************************)
(* C2. Repairer.apply(plan) followed by Repairer.revert(plan) leaves every *)
(* touched file with the content it had before apply, and absent if it was *)
(* absent before apply, for every plan, several actions naming the same    *)
(* file included.                                                          *)
(* revert walks the actions in list order, so the second action on a file  *)
(* restores what the first one wrote.                                      *)
(***************************************************************************)
C2_RevertRestores ==
    unit.phase = "reverted" => \A f \in Touched(unit.plan) : kb[f] = unit.kb0[f]

\* The plans of finished case i that are applied and not reverted, by index.
KeptPlans(i) ==
    { j \in 1..Len(done_hist[i].status) : done_hist[i].status[j] = "applied" }

(***************************************************************************)
(* C3. Whenever run_case returns passed = true with retries > 0, every     *)
(* file touched by the last applied, non-reverted plan of the case holds   *)
(* that plan's content when the case returns: every action of the plan has *)
(* taken effect, none is left out.                                         *)
(***************************************************************************)
C3_PassedKeepsLastPlan ==
    \A i \in Finished :
        (results[i].passed /\ results[i].retries > 0 /\ KeptPlans(i) # {}) =>
            LET last == CHOOSE j \in KeptPlans(i) : \A k \in KeptPlans(i) : k <= j
            IN  /\ HoldsPlan(done_hist[i].kb_end, results[i].repair_plans[last])
                /\ last = Len(results[i].repair_plans)

\* A case passes after a repair whose plan names two files.
C3_Witness ==
    \E i \in Finished :
        /\ results[i].passed
        /\ results[i].retries > 0
        /\ KeptPlans(i) # {}
        /\ Cardinality(Touched(Last(results[i].repair_plans))) = 2

(***************************************************************************)
(* C4. If in retry attempt k (0-based) the regenerated SQL passes both     *)
(* comparisons, run_case terminates at once with passed = true and         *)
(* retries = k + 1, the plan of attempt k is not reverted (when plans are  *)
(* applied it is on disk), repair_plans holds the k + 1 plans proposed so  *)
(* far, and run_all counts the case as repaired.                           *)
(***************************************************************************)
C4_PassAfterRepair ==
    /\ \A i \in Finished :
         LET h == done_hist[i]
             r == results[i]
             n == Len(h.attempts)
         IN  (n >= 2 /\ h.attempts[n] = "pass") =>
                /\ r.passed
                /\ r.retries = n - 1
                /\ Len(r.repair_plans) = n - 1
                /\ Len(h.status) = n - 1
                /\ h.status[n - 1] # "reverted"
                /\ ~dry_run => /\ h.status[n - 1] = "applied"
                               /\ HoldsPlan(h.kb_end, r.repair_plans[n - 1])
                /\ \A j \in 1..(n - 1) : h.attempts[j] # "pass"
    /\ pc = "done" =>
         summary.repaired =
             Cardinality({ i \in Finished :
                             /\ Len(done_hist[i].attempts) >= 2
                             /\ Last(done_hist[i].attempts) = "pass" })

\* Structural mismatch on the first attempt, full match after one repair,
\* a second case repaired as well, and the run is over.
C4_Witness ==
    /\ pc = "done"
    /\ ~dry_run
    /\ \E i \in Finished :
         /\ done_hist[i].attempts = <<"structural_mismatch", "pass">>
         /\ results[i].retries = 1
    /\ summary.repaired = 2

\* Every attempt of finished case i, the first one and each retry attempt,
\* ended in a mismatch: the case was never stopped by the budget.
AllMismatched(i) ==
    \A j \in 1..Len(done_hist[i].attempts) : done_hist[i].attempts[j] \in Mismatches

(***************************************************************************)
(* C5. With max_retries = N and the budget not exhausted, if the first     *)
(* attempt and every retry attempt end in a mismatch, run_case returns     *)
(* passed = false, retries = N, exactly N plans, and every one of them has *)
(* been reverted when the case terminates.  Stated of a Runner that makes  *)
(* retry attempts and applies its plans (no_repair and dry_run off).       *)
(* The retry loop reverts the plan after a structural mismatch only: the   *)
(* plan of a retry attempt that matched structurally and mismatched on the *)
(* results is still applied when the case terminates.                      *)
(***************************************************************************)
C5_AllReverted ==
    \A i \in Finished :
        (AllMismatched(i) /\ ~no_repair /\ ~dry_run) =>
            /\ ~results[i].passed
            /\ results[i].retries = max_retries
            /\ Len(results[i].repair_plans) = max_retries
            /\ \A j \in 1..Len(done_hist[i].status) : done_hist[i].status[j] = "reverted"

(***************************************************************************)
(* C6. If at the start of retry attempt k the oracle-call budget is        *)
(* exhausted (llm_calls >= max_llm_calls), run_case terminates with        *)
(* passed = false, the budget-exhaustion error, retries = k and            *)
(* repair_plans equal to the k plans proposed so far; no further oracle    *)
(* call is made for the case and the disk is not touched.                  *)
(***************************************************************************)
C6_BudgetStopsCase ==
    [][ (pc = "loop" /\ retry < max_retries /\ llm_calls >= max_llm_calls) =>
            /\ Len(results') = Len(results) + 1
            /\ LET r == results'[Len(results')] IN
                 /\ ~r.passed
                 /\ r.error = BudgetError
                 /\ r.retries = retry
                 /\ r.retries = Len(hist.attempts) - 1
                 /\ r.repair_plans = repair_plans
                 /\ Len(r.repair_plans) = retry
            /\ llm_calls' = llm_calls
            /\ kb' = kb
            /\ pc' \in {"generate", "summarize"} ]_vars

\* A case stopped by the budget after at least one repair cycle, with
\* retries left.
C6_Witness ==
    \E i \in Finished :
        /\ results[i].error = BudgetError
        /\ results[i].retries = 1
        /\ max_retries = 2

(***************************************************************************)
(* C7. In a retry attempt where the regenerated SQL passes the structural  *)
(* comparison but the result comparison mismatches, the plan of the        *)
(* attempt is not reverted: the disk is left as it is (holding the plan's  *)
(* content when plans are applied), the failure context becomes the result *)
(* mismatch, and the loop goes on to the next attempt.                     *)
(***************************************************************************)
C7_ResultMismatchKeepsPlan ==
    [][ (pc = "reresult"
            /\ hist'.attempts = Append(hist.attempts, "result_mismatch")) =>
            /\ kb' = kb
            /\ hist'.status = hist.status
            /\ ~dry_run => /\ hist.status[plan] = "applied"
                           /\ HoldsPlan(kb', repair_plans[plan])
            /\ failure_context' = ResultContext(result_outcome')
            /\ ~result_outcome'.match
            /\ pc' = "loop"
            /\ retry' = retry + 1 ]_vars

\* A retry attempt has just ended in a result mismatch, its plan on disk.
C7_Witness ==
    /\ pc = "loop"
    /\ retry >= 1
    /\ ~dry_run
    /\ Last(hist.attempts) = "result_mismatch"
    /\ hist.status[retry] = "applied"
    /\ kb # hist.kb_start

\* The history h says retry attempt k (1-based) ended without SQL or in a
\* structural mismatch.
EndedUnmatched(h, k) ==
    /\ k >= 1
    /\ Len(h.attempts) >= k + 1
    /\ h.attempts[k + 1] \in {"non_sql", "structural_mismatch"}

(***************************************************************************)
(* C8. Outside a dry run, when a retry attempt ends with a non-SQL         *)
(* response or a structural mismatch of the regenerated SQL, the plan      *)
(* applied in that attempt is reverted before the budget check and the     *)
(* propose of the next attempt, and the loop goes on to the next attempt.  *)
(***************************************************************************)
C8_RevertBeforeNextAttempt ==
    /\ ~dry_run =>
         \A k \in 1..Len(hist.status) :
            EndedUnmatched(hist, k) =>
               IF pc = "revert" /\ k = Len(hist.attempts) - 1
               THEN hist.status[k] = "applied" /\ retry = k - 1 /\ plan = k
               ELSE /\ hist.status[k] = "reverted"
                    /\ retry >= k
                    /\ (k = Len(hist.attempts) - 1 /\ k = Len(hist.status)) =>
                           /\ pc \in {"loop", "propose"}
                           /\ retry = k
    /\ ~dry_run =>
         \A i \in Finished : \A k \in 1..Len(done_hist[i].status) :
            EndedUnmatched(done_hist[i], k) => done_hist[i].status[k] = "reverted"

\* The next attempt is about to propose, the plan of the previous attempt
\* having been reverted after a non-SQL response.
C8_Witness ==
    /\ pc = "propose"
    /\ ~dry_run
    /\ retry = 1
    /\ hist.attempts = <<"result_mismatch", "non_sql">>
    /\ hist.status = <<"reverted">>

(***************************************************************************)
(* C9. In a dry run no knowledge-base file is ever written or deleted:     *)
(* apply and revert are never called and the disk is unchanged in every    *)
(* reachable state, while plans are still proposed, recorded in            *)
(* repair_plans and followed by a re-generation.                           *)
(***************************************************************************)
C9_DryRunLeavesDisk ==
    dry_run =>
        /\ kb \in InitialKBs
        /\ pc \notin {"apply", "revert"}
        /\ kb = hist.kb_start
        /\ \A j \in 1..Len(hist.status) : hist.status[j] = "proposed"
        /\ Len(repair_plans) = Len(hist.status)
        /\ \A j \in 1..Len(repair_plans) :
             \A a \in 1..Len(repair_plans[j].actions) :
                repair_plans[j].actions[a].original = Null
        /\ (Len(hist.status) >= 1 /\ Len(hist.status) = Len(hist.attempts)) =>
             pc \in {"regenerate", "restructural", "reresult"}
        /\ \A i \in Finished :
             /\ done_hist[i].kb_end = done_hist[i].kb_start
             /\ \A j \in 1..Len(done_hist[i].status) : done_hist[i].status[j] = "proposed"
             /\ Len(results[i].repair_plans) = Len(done_hist[i].status)

\* A dry run in which a case was repaired "on paper": two plans recorded,
\* the second followed by a passing re-generation.
C9_Witness ==
    /\ dry_run
    /\ \E i \in Finished :
         /\ results[i].passed
         /\ Len(results[i].repair_plans) = 2

(***************************************************************************)
(* C10. In evaluation-only mode (no_repair) a case whose first attempt     *)
(* mismatches, structurally or at result level, returns passed = false,    *)
(* retries = 0, no repair plans and the failure context as its error;      *)
(* propose, apply and revert are never called and the disk is unchanged.   *)
(***************************************************************************)
C10_NoRepairStops ==
    no_repair =>
        /\ kb \in InitialKBs
        /\ pc \notin {"loop", "propose", "apply", "regenerate", "restructural",
                      "reresult", "revert"}
        /\ repair_plans = <<>>
        /\ kb = hist.kb_start
        /\ hist.status = <<>>
        /\ \A i \in Finished :
             LET h == done_hist[i]
                 r == results[i]
             IN  /\ h.status = <<>>
                 /\ h.kb_end = h.kb_start
                 /\ Len(h.attempts) = 1
                 /\ h.attempts[1] \in Mismatches =>
                      /\ ~r.passed
                      /\ r.retries = 0
                      /\ r.repair_plans = <<>>
                      /\ h.calls_end = h.calls_start + 2
                      /\ h.attempts[1] = "structural_mismatch" =>
                           /\ ~r.structural_result.match
                           /\ r.result_result = Null
                           /\ r.error = StructuralContext(r.structural_result)
                      /\ h.attempts[1] = "result_mismatch" =>
                           /\ r.structural_result.match
                           /\ ~r.result_result.match
                           /\ r.error = ResultContext(r.result_result)

\* An evaluation-only run with one structural and one result-level failure.
C10_Witness ==
    /\ no_repair
    /\ max_retries > 0
    /\ \E i \in Finished : done_hist[i].attempts = <<"structural_mismatch">>
    /\ \E i \in Finished : done_hist[i].attempts = <<"result_mismatch">>

(***************************************************************************)
(* C11. When the agent's first response for a case is not of type "sql",   *)
(* run_case ends at once: passed = false, retries = 0, no repair plans, no *)
(* comparison results, and the error is the agent's message (the text      *)
(* "Agent did not return SQL" when the response carries none); the ask is  *)
(* the only call made, no SQL is judged or executed, no plan is proposed   *)
(* and the disk is unchanged.                                              *)
(***************************************************************************)
C11_NonSqlEndsCase ==
    \A i \in Finished :
        LET h == done_hist[i]
            r == results[i]
        IN  (h.first # Null /\ h.first.type # "sql") =>
                /\ r.case_id = cases[i].id
                /\ ~r.passed
                /\ r.retries = 0
                /\ r.repair_plans = <<>>
                /\ r.structural_result = Null
                /\ r.result_result = Null
                /\ r.error = IF "message" \in DOMAIN h.first
                             THEN [text |-> h.first.message]
                             ELSE [text |-> "Agent did not return SQL"]
                /\ h.attempts = <<"non_sql">>
                /\ h.status = <<>>
                /\ h.judged_sql = None
                /\ h.executed_sql = None
                /\ h.calls_end = h.calls_start + 1
                /\ h.kb_end = h.kb_start

\* One case ended on a clarification request and another on a response
\* without a message, in a run that would otherwise repair.
C11_Witness ==
    /\ ~no_repair
    /\ max_retries > 0
    /\ \E i \in Finished :
         /\ done_hist[i].first = [type |-> "clarification", message |-> "Which region?"]
         /\ results[i].error = [text |-> "Which region?"]
    /\ \E i \in Finished :
         /\ done_hist[i].first = [type |-> "error"]
         /\ results[i].error = [text |-> "Agent did not return SQL"]

(***************************************************************************)
(* C12. run_case returns passed = true only when the structural comparison *)
(* and then the result comparison both matched for one and the same        *)
(* generated SQL; the result comparison is only ever run on a SQL text     *)
(* whose structural comparison has just matched.                           *)
(***************************************************************************)
C12_PassNeedsBothMatches ==
    /\ pc \in {"result", "reresult"} =>
         /\ generated_sql # None
         /\ struct_result # Null
         /\ struct_result.match
         /\ hist.judged_sql = generated_sql
    /\ \A i \in Finished :
         LET h == done_hist[i]
             r == results[i]
         IN  r.passed =>
               /\ r.structural_result # Null
               /\ r.structural_result.match
               /\ r.result_result # Null
               /\ r.result_result.match
               /\ h.judged_sql # None
               /\ h.executed_sql = h.judged_sql

\* A case passed on a regenerated SQL after its first SQL had matched
\* structurally and mismatched at result level, and after another SQL had
\* mismatched structurally.
C12_Witness ==
    \E i \in Finished :
        LET h == done_hist[i] IN
        /\ results[i].passed
        /\ h.attempts = <<"result_mismatch", "structural_mismatch", "pass">>
        /\ h.executed_sql # h.first.sql

\* How many of the first n results satisfy: passed = p and (retries > 0) = q.
RECURSIVE CountResults(_, _, _)
CountResults(n, p, q) ==
    IF n = 0
    THEN 0
    ELSE CountResults(n - 1, p, q)
         + (IF results[n].passed = p /\ (results[n].retries > 0) = q THEN 1 ELSE 0)

(***************************************************************************)
(* C13. The RunSummary run_all returns is derived from the CaseResult list *)
(* alone: total is the number of cases, passed the number of results with  *)
(* passed and retries = 0, repaired the number with passed and retries > 0,*)
(* failed the number not passed, so total = passed + repaired + failed;    *)
(* results holds one CaseResult per case, in input order.  The counts also *)
(* agree with how the cases ended: passed at the first attempt, passed in  *)
(* a retry attempt, or not passed.                                         *)
(***************************************************************************)
C13_SummaryFromResults ==
    /\ pc # "done" => summary = Null
    /\ pc = "done" =>
         /\ summary.results = results
         /\ Len(results) = Len(cases)
         /\ \A i \in Finished : results[i].case_id = cases[i].id
         /\ summary.total = Len(cases)
         /\ summary.passed = CountResults(Len(results), TRUE, FALSE)
         /\ summary.repaired = CountResults(Len(results), TRUE, TRUE)
         /\ summary.failed = CountResults(Len(results), FALSE, FALSE)
                              + CountResults(Len(results), FALSE, TRUE)
         /\ summary.total = summary.passed + summary.repaired + summary.failed
         /\ summary.passed =
              Cardinality({i \in Finished : done_hist[i].attempts = <<"pass">>})
         /\ summary.repaired =
              Cardinality({i \in Finished : /\ Len(done_hist[i].attempts) > 1
                                            /\ Last(done_hist[i].attempts) = "pass"})
         /\ summary.failed =
              Cardinality({i \in Finished : Last(done_hist[i].attempts) # "pass"})

\* A finished run with one repaired case and one failed case that used up
\* its retries.
C13_Witness ==
    /\ pc = "done"
    /\ summary.passed = 0
    /\ summary.repaired = 1
    /\ summary.failed = 1
    /\ \E i \in Finished : ~results[i].passed /\ results[i].retries > 0

\* The positions inside run_case.
CasePcs == {"generate", "structural", "result", "phase3", "loop", "propose",
            "apply", "regenerate", "restructural", "reresult", "revert"}

\* Case i has ended and did not pass.
FailedAt(i) == i \in Finished /\ ~results[i].passed

\* Every case has a CaseResult, and each case's Generate phase asked the agent.
AllCasesRan ==
    /\ Len(results) = Len(cases)
    /\ \A i \in Finished :
         /\ results[i].case_id = cases[i].id
         /\ done_hist[i].first # Null
         /\ done_hist[i].calls_end > done_hist[i].calls_start

\* Where a failed case leaves the run: whenever a case has ended as failed
\* and is not the last, the next case is over, or it is the running case at
\* one of `positions`; every case that has ended asked the agent in its
\* Generate phase; and a run that has left the loop has a CaseResult for
\* every case.
RunGoesOn(positions) ==
    /\ pc \in CasePcs => case_idx \in 1..Len(cases) /\ Len(results) = case_idx - 1
    /\ pc \in {"summarize", "done"} => AllCasesRan
    /\ \A i \in Finished :
         /\ done_hist[i].first # Null
         /\ (FailedAt(i) /\ i < Len(cases)) =>
              \/ i + 1 \in Finished
              \/ case_idx = i + 1 /\ pc \in positions

(***************************************************************************)
(* C14, as stated. A failed case never aborts the run: after any case has  *)
(* ended as failed (no SQL from the agent, retries used up, budget         *)
(* exhausted) run_all starts every later case, each later case executes    *)
(* its Generate phase, and a CaseResult is produced for every case.        *)
(* run_all and run_case have no exception handler: a call that raises in a *)
(* later case ends run_all there, with no CaseResult for that case or for  *)
(* the cases after it.                                                     *)
(***************************************************************************)
C14_EveryCaseGetsResult ==
    /\ [](RunGoesOn(CasePcs))
    /\ \A i \in 1..(NumCases + 1) : (FailedAt(i) ~> (pc = "done" /\ AllCasesRan))

(***************************************************************************)
(* C14, amended. After any case has ended as failed, run_all starts the    *)
(* next case, which executes its Generate phase, and so on through every   *)
(* later case, until a CaseResult is produced for every case, unless a     *)
(* call made for a later case raises: the run then ends in that later      *)
(* case, which was started, with the results of the cases before it.       *)
(***************************************************************************)
C14_FailedCaseDoesNotAbort ==
    /\ [](/\ RunGoesOn(CasePcs \cup {"raised"})
          /\ pc = "raised" => raised # Null /\ Len(results) = case_idx - 1)
    /\ \A i \in 1..(NumCases + 1) :
         (FailedAt(i) ~> (\/ pc = "done" /\ AllCasesRan
                          \/ pc = "raised" /\ case_idx > i))

\* The run over three cases is over; its first case failed on a non-SQL
\* response, its second ran out of budget in a retry attempt, and its third
\* was started all the same and passed.
C14_Witness ==
    /\ pc = "done"
    /\ AllCasesRan
    /\ Len(results) = NumCases + 1
    /\ done_hist[1].attempts = <<"non_sql">>
    /\ Last(done_hist[2].attempts) = "budget"
    /\ \A i \in 3..Len(results) : results[i].passed

\* The kind of the last mismatch among the attempts q ("none" without one).
RECURSIVE LastMismatch(_)
LastMismatch(q) ==
    IF q = <<>>
    THEN "none"
    ELSE IF Last(q) \in Mismatches
         THEN Last(q)
         ELSE LastMismatch(SubSeq(q, 1, Len(q) - 1))

(***************************************************************************)
(* C15. Every CaseResult with passed = false carries an error, on every    *)
(* way run_case ends, max_retries = 0 included: the budget message when    *)
(* the budget stopped the case, the agent's message when the first         *)
(* response was not SQL, and otherwise the failure context of the last     *)
(* mismatch of the case.  A passed result carries none.                    *)
(***************************************************************************)
C15_FailedHasError ==
    \A i \in Finished :
        LET h == done_hist[i]
            r == results[i]
        IN  /\ r.passed => r.error = Null
            /\ ~r.passed =>
                 /\ r.error # Null
                 /\ DOMAIN r.error \subseteq
                        {"text", "differences", "row_mismatches", "sample_diffs"}
                 /\ "text" \in DOMAIN r.error
                 /\ IF Last(h.attempts) = "budget"
                    THEN r.error = [text |-> "Global LLM call budget exhausted"]
                    ELSE IF h.attempts = <<"non_sql">>
                    THEN r.error.text \in {"Which region?", "Agent did not return SQL"}
                    ELSE r.error.text =
                            IF LastMismatch(h.attempts) = "structural_mismatch"
                            THEN "Structural mismatch"
                            ELSE "Result mismatch"

\* With max_retries = 0 and repair enabled, a case failed at result level
\* and another on a structural mismatch.
C15_Witness ==
    /\ max_retries = 0
    /\ ~no_repair
    /\ \E i \in Finished :
         /\ ~results[i].passed
         /\ done_hist[i].attempts = <<"result_mismatch">>
         /\ results[i].error.text = "Result mismatch"
    /\ \E i \in Finished :
         /\ ~results[i].passed
         /\ done_hist[i].attempts = <<"structural_mismatch">>
         /\ results[i].error.text = "Structural mismatch"

\* Case i passed at its first attempt.
PassedAtOnce(i) == i \in Finished /\ done_hist[i].attempts = <<"pass">>

(***************************************************************************)
(* C17. A case that passes with retries = 0 leaves the knowledge base as   *)
(* it was, and its result depends on the collaborators' answers only, not  *)
(* on the oracle-call counter: whenever the first SQL matched structurally *)
(* and the result comparison matches too, run_case returns passed = true,  *)
(* retries = 0, no repair plans, no error and the two comparison results,  *)
(* so that two such runs with the same answers give the same CaseResult.   *)
(***************************************************************************)
C17_FirstPassIsPure ==
    /\ [](\A i \in Finished : PassedAtOnce(i) =>
            /\ done_hist[i].kb_end = done_hist[i].kb_start
            /\ done_hist[i].status = <<>>
            /\ results[i].passed
            /\ results[i].retries = 0
            /\ results[i].repair_plans = <<>>
            /\ results[i].error = Null
            /\ \A j \in Finished :
                 (/\ PassedAtOnce(j)
                  /\ results[j].structural_result = results[i].structural_result
                  /\ results[j].result_result = results[i].result_result) =>
                     results[j] = [results[i] EXCEPT !.case_id = cases[j].id])
    /\ [][pc = "result" =>
            IF pc' = "raised"
            THEN results' = results /\ kb' = kb /\ llm_calls' = llm_calls
            ELSE IF result_outcome' # Null
            THEN pc' = "phase3" /\ ~result_outcome'.match
            ELSE /\ Len(results') = Len(results) + 1
                 /\ Last(results') =
                      [case_id |-> cases[case_idx].id, passed |-> TRUE, retries |-> 0,
                       structural_result |-> struct_result,
                       result_result |-> Last(results').result_result,
                       repair_plans |-> <<>>, error |-> Null]
                 /\ Last(results').result_result
                      \in {o \in ResultOutcomes : "match" \in DOMAIN o /\ o.match}
                 /\ kb' = kb
                 /\ kb = hist.kb_start
                 /\ llm_calls' = llm_calls]_vars

\* Two cases passed at once with the same comparison results, the second
\* one when the counter had already reached max_llm_calls.
C17_Witness ==
    /\ PassedAtOnce(1)
    /\ PassedAtOnce(2)
    /\ results[1].structural_result = results[2].structural_result
    /\ results[1].result_result = results[2].result_result
    /\ done_hist[2].calls_start >= max_llm_calls
    /\ max_llm_calls > 0

\* The value of the oracle-call counter when the current run_all began.
RunStartCalls ==
    IF done_hist = <<>> THEN hist.calls_start ELSE done_hist[1].calls_start

(***************************************************************************)
(* C16. The oracle-call counter is scoped to one run_all: every run_all,   *)
(* a second one on the same Runner included, begins with the counter at 0, *)
(* so that the budget stops a case only when the calls of this very run    *)
(* have reached max_llm_calls.                                             *)
(* The code sets _llm_calls in __init__ only; run_all never resets it, and *)
(* a second run_all begins with what the first one left.                   *)
(***************************************************************************)
C16_CounterScopedToRun ==
    runs >= 1 =>
        /\ RunStartCalls = 0
        /\ \A i \in Finished :
             Last(done_hist[i].attempts) = "budget" =>
                 done_hist[i].calls_end - RunStartCalls >= max_llm_calls

\* x * y
RECURSIVE NatProductFrom(_, _, _)
NatProductFrom(x, y, i) ==
    IF i > Len(y)
    THEN <<>>
    ELSE NatAdd(NatMul(x, y[i]), <<0>> \o NatProductFrom(x, y, i + 1))

NatProduct(x, y) == NatTrim(NatProductFrom(x, y, 1))

\* |c| < 1e-9 for the float that c holds.
ExactNearZero(c) == FMagCmp(FloatOf(c), ZeroEps) < 0

\* |a - b| / max(|a|, |b|) <= tolerance for the floats that a, b and the
\* tolerance hold, without rounding: with a = xa * 2^low, b = xb * 2^low and
\* tolerance = m * 2^e, |xa - xb| is at most m * 2^e * max(xa, xb).
ExactWithin(a, b, tolinv) ==
    LET x    == FloatOf(a)
        y    == FloatOf(b)
        t    == Tolerance(tolinv)
        low  == IF x.e < y.e THEN x.e ELSE y.e
        xa   == NatShl(x.m, x.e - low)
        xb   == NatShl(y.m, y.e - low)
        diff == IF x.neg # y.neg THEN NatAdd(xa, xb)
                ELSE IF NatCmp(xa, xb) < 0 THEN NatSub(xb, xa)
                ELSE NatSub(xa, xb)
        most == IF NatCmp(xa, xb) < 0 THEN xb ELSE xa
    IN  IF t.e < 0
        THEN NatCmp(NatShl(diff, 0 - t.e), NatProduct(most, t.m)) <= 0
        ELSE NatCmp(diff, NatShl(NatProduct(most, t.m), t.e)) <= 0

\* The stated rule for a pair of cells, on the values the cells and the
\* tolerance hold and without rounding: a comparison with nan is never true.
RuleEqual(a, b, tolinv) ==
    \/ /\ IsNumeric(a)
       /\ IsNumeric(b)
       /\ ~IsNaN(a)
       /\ ~IsNaN(b)
       /\ \/ /\ ExactNearZero(a)
             /\ ExactNearZero(b)
          \/ ExactWithin(a, b, tolinv)
    \/ /\ ~IsNumeric(a)
       /\ ~IsNumeric(b)
       /\ a = b

(***************************************************************************)
(* C20. Two paired cells are judged equal exactly when both are numeric    *)
(* and either both lie within 1e-9 of zero or |a - b| / max(|a|, |b|) is   *)
(* at most the tolerance, or they are non-numeric and exactly equal; 1.0   *)
(* against 1.0049 is equal at tolerance 0.01 and unequal at 0.0001.        *)
(* The code judges a nan equal to every number, since it asks whether the  *)
(* relative difference exceeds the tolerance, and raises ZeroDivisionError *)
(* on 0 against nan.                                                       *)
(***************************************************************************)
C20_CellRule ==
    (unit.phase = "judged" /\ Len(unit.row_a) = 1 /\ Len(unit.row_b) = 1) =>
        /\ unit.verdict = Returns(RuleEqual(unit.row_a[1], unit.row_b[1], unit.tolinv))
        /\ (unit.row_a[1] = FloatCell(1, 0) /\ unit.row_b[1] = FloatCell(10049, 4)) =>
             unit.verdict = Returns(unit.tolinv = 100)

(***************************************************************************)
(* C18. compare(A, B).match = compare(B, A).match for all result sets A    *)
(* and B (with or without execution errors, with equal or different        *)
(* columns and row counts) and every tolerance: both calls return, with    *)
(* the same verdict.                                                       *)
(* With 0 in a row of A paired with nan in B, compare(A, B) raises         *)
(* ZeroDivisionError while compare(B, A) returns match = true.             *)
(***************************************************************************)
C18_MatchSymmetric ==
    unit.phase = "swapped" =>
        /\ "returns" \in DOMAIN unit.fwd
        /\ "returns" \in DOMAIN unit.bwd
        /\ unit.fwd.returns.match = unit.bwd.returns.match

\* q and r hold the same rows, each as many times.
IsPermutation(q, r) ==
    /\ Len(q) = Len(r)
    /\ \A i \in 1..Len(q) :
         Cardinality({ j \in 1..Len(q) : q[j] = q[i] })
            = Cardinality({ j \in 1..Len(r) : r[j] = q[i] })

(***************************************************************************)
(* C19. For every error-free result set A and every permutation A' of its  *)
(* rows (same columns), compare(A, A') returns match = true with           *)
(* row_mismatches = 0.                                                     *)
(***************************************************************************)
C19_RowOrderIrrelevant ==
    (/\ unit.phase \in {"compared", "swapped"}
     /\ ~HasError(unit.expected)
     /\ ~HasError(unit.generated)
     /\ unit.generated.columns = unit.expected.columns
     /\ IsPermutation(unit.expected.rows, unit.generated.rows)) =>
        /\ "returns" \in DOMAIN unit.fwd
        /\ unit.fwd.returns.match
        /\ unit.fwd.returns.row_mismatches = 0
        /\ unit.fwd.returns.schema_diff = <<>>
        /\ unit.fwd.returns.sample_diffs = <<>>

\* ('ID', 1000), ('TH', 2000) against the same rows in the other order.
C19_Witness ==
    /\ unit.phase = "compared"
    /\ Len(unit.expected.rows) = 2
    /\ unit.expected.rows[1] = <<StrCell(<<"I", "D">>), IntCell(1000)>>
    /\ unit.generated.columns = unit.expected.columns
    /\ unit.generated.rows = <<unit.expected.rows[2], unit.expected.rows[1]>>
    /\ unit.fwd = Returns(ResultCompareResult(TRUE, <<>>, 0, <<>>))

\* The sorted positions of compare(expected, generated) that are a mismatch:
\* a position one side lacks, or whose two rows are not judged equal.
MismatchPositions(expected, generated, tolinv) ==
    LET e == SortedRows(expected.rows)
        g == SortedRows(generated.rows)
        n == IF Len(e) > Len(g) THEN Len(e) ELSE Len(g)
    IN  { i \in 1..n : \/ i > Len(e)
                       \/ i > Len(g)
                       \/ RowsEqual(e[i], g[i], tolinv) # Returns(TRUE) }

\* compare(expected, generated) went on to compare the rows and returned.
RowsCompared(expected, generated, outcome) ==
    /\ ~HasError(expected)
    /\ ~HasError(generated)
    /\ SortedColumns(expected.columns) = SortedColumns(generated.columns)
    /\ "returns" \in DOMAIN outcome

(***************************************************************************)
(* C21. For every pair of result sets, the sample_diffs list returned by   *)
(* compare has at most 5 entries, whatever the number of mismatching or    *)
(* missing rows, while row_mismatches counts every mismatching or missing  *)
(* position.                                                               *)
(* Six rows against none gives six "missing" entries in sample_diffs: only *)
(* the entries for unequal rows are capped.                                *)
(***************************************************************************)
C21_SampleDiffsCapped ==
    (/\ unit.phase \in {"compared", "swapped"}
     /\ RowsCompared(unit.expected, unit.generated, unit.fwd)) =>
        /\ Len(unit.fwd.returns.sample_diffs) <= 5
        /\ unit.fwd.returns.row_mismatches
             = Cardinality(MismatchPositions(unit.expected, unit.generated, unit.tolinv))

\* An execution error on either side, or column lists that differ as sorted lists.
SchemaFails(expected, generated) ==
    \/ expected.error # None
    \/ generated.error # None
    \/ SortedColumns(expected.columns) # SortedColumns(generated.columns)

(***************************************************************************)
(* C22. compare: if either side carries an execution error or the column   *)
(* lists differ as sorted lists, the call returns match = false, a         *)
(* non-empty schema_diff, row_mismatches = 0 and empty sample_diffs;       *)
(* otherwise a returned result has an empty schema_diff and match is true  *)
(* iff row_mismatches = 0.  No returned result has a non-empty schema_diff *)
(* together with row_mismatches > 0.                                       *)
(***************************************************************************)
C22_SchemaOrRows ==
    unit.phase \in {"compared", "swapped"} =>
        /\ SchemaFails(unit.expected, unit.generated) =>
              /\ "returns" \in DOMAIN unit.fwd
              /\ ~unit.fwd.returns.match
              /\ unit.fwd.returns.schema_diff # <<>>
              /\ unit.fwd.returns.row_mismatches = 0
              /\ unit.fwd.returns.sample_diffs = <<>>
        /\ (~SchemaFails(unit.expected, unit.generated) /\ "returns" \in DOMAIN unit.fwd) =>
              /\ unit.fwd.returns.schema_diff = <<>>
              /\ unit.fwd.returns.match <=> (unit.fwd.returns.row_mismatches = 0)
        /\ "returns" \in DOMAIN unit.fwd =>
              ~(unit.fwd.returns.schema_diff # <<>> /\ unit.fwd.returns.row_mismatches > 0)

\* A generated side that timed out, against an expected side whose row differs
\* from the one the failed side carries.
C22_Witness ==
    /\ unit.phase = "compared"
    /\ unit.generated.error = "timeout"
    /\ unit.expected.error = None
    /\ unit.expected.columns = unit.generated.columns
    /\ unit.expected.rows = <<<<IntCell(0)>>>>
    /\ unit.fwd = Returns(ResultCompareResult(FALSE,
                      <<[text |-> "Generated SQL error", error |-> "timeout"]>>, 0, <<>>))

\* The positions both sides have whose rows are not judged equal.
UnequalCommon(expected, generated, tolinv) ==
    LET e == SortedRows(expected.rows)
        g == SortedRows(generated.rows)
    IN  { i \in 1..Len(e) : i <= Len(g) /\ RowsEqual(e[i], g[i], tolinv) # Returns(TRUE) }

(***************************************************************************)
(* C23. When the two result sets have the same columns but different row   *)
(* counts, every sorted position beyond the shorter side counts as exactly *)
(* one mismatch: row_mismatches is the number of unequal positions both    *)
(* sides have plus the difference of the row counts, hence at least that   *)
(* difference, and match is false.                                         *)
(***************************************************************************)
C23_MissingRowsCount ==
    (/\ unit.phase \in {"compared", "swapped"}
     /\ ~SchemaFails(unit.expected, unit.generated)
     /\ Len(unit.expected.rows) # Len(unit.generated.rows)
     /\ "returns" \in DOMAIN unit.fwd) =>
        LET d == Abs(Len(unit.expected.rows) - Len(unit.generated.rows))
        IN  /\ unit.fwd.returns.row_mismatches
                 = d + Cardinality(UnequalCommon(unit.expected, unit.generated, unit.tolinv))
            /\ unit.fwd.returns.row_mismatches >= d
            /\ ~unit.fwd.returns.match

\* ('ID', 1000), ('TH', 2000) against ('ID', 1000) alone: the second position
\* is the one mismatch.
C23_Witness ==
    /\ unit.phase = "compared"
    /\ Len(unit.expected.rows) = 2
    /\ unit.generated.rows = <<unit.expected.rows[1]>>
    /\ unit.expected.rows[1] = <<StrCell(<<"I", "D">>), IntCell(1000)>>
    /\ unit.fwd = Returns(ResultCompareResult(FALSE, <<>>, 1,
                      <<[row |-> 1, text |-> "missing in generated"]>>))

(***************************************************************************)
(* C24. Every CompareResult returned by StructuralComparator.compare has   *)
(* differences empty iff match is true, for any response of the oracle.    *)
(* The result carries the two fields of the response as they came: a       *)
(* response with match true and a difference listed, or with match false   *)
(* and none, comes back as such.                                           *)
(***************************************************************************)
C24_DifferencesIffMismatch ==
    (unit.phase = "compared" /\ "returns" \in DOMAIN unit.outcome) =>
        (unit.outcome.returns.differences = <<>> <=> unit.outcome.returns.match)

\* The reply is an object with a match field and a differences field.
StrictShape(reply) ==
    /\ "returns" \in DOMAIN reply
    /\ "dict" \in DOMAIN reply.returns
    /\ {"match", "differences"} \subseteq DOMAIN reply.returns.dict

(***************************************************************************)
(* C25. If the oracle's response to a structural comparison does not parse *)
(* into the {match, differences} shape, StructuralComparator.compare fails *)
(* with an error and returns no CompareResult.                             *)
(* A response without a match field comes back as a CompareResult with     *)
(* match = false.                                                          *)
(***************************************************************************)
C25_MalformedResponseFails ==
    (unit.phase = "compared" /\ ~StrictShape(unit.reply)) =>
        "raises" \in DOMAIN unit.outcome

\* The cases of the file, in source order, that load is to return.
Selected(recs, tags, case_id) ==
    LET built     == [i \in 1..Len(recs) |-> BuildCase(recs[i])]
        HasId(c)  == c.id = case_id
        HasTag(c) == \E t \in { tags.list[i] : i \in 1..Len(tags.list) } :
                        t \in { c.tags[j] : j \in 1..Len(c.tags) }
    IN  IF case_id # None THEN SelectSeq(built, HasId)
        ELSE IF tags # Null THEN SelectSeq(built, HasTag)
        ELSE built

(***************************************************************************)
(* C26. load(tags, case_id): when case_id is given the result is exactly   *)
(* the cases whose id equals case_id, whatever tags is; otherwise, when    *)
(* tags is given, exactly the cases whose tag set intersects tags;         *)
(* otherwise all cases; each time in source order.                         *)
(* With both arguments given the code applies both filters: the case with  *)
(* the requested id is dropped when none of its tags is requested.         *)
(***************************************************************************)
C26_LoadSelects ==
    (unit.phase = "loaded" /\ "returns" \in DOMAIN unit.outcome) =>
        unit.outcome.returns
            = Selected(unit.doc.returns.dict.cases, unit.tags, unit.case_id)

\* The document is no mapping with a `cases` list, or one of its records
\* lacks id, question or expected_sql.
Malformed(doc) ==
    \/ "raises" \in DOMAIN doc
    \/ doc.returns = Null
    \/ "cases" \notin DOMAIN doc.returns.dict
    \/ \E i \in 1..Len(doc.returns.dict.cases) :
          ~({"id", "question", "expected_sql"} \subseteq DOMAIN doc.returns.dict.cases[i])

(***************************************************************************)
(* C27. load fails with a ConfigurationError when the source is malformed  *)
(* or a record lacks id, question or expected_sql, and returns no cases    *)
(* then; a record without tags loads with an empty tag list.               *)
(* The code fails with the error of the failing statement instead:         *)
(* KeyError for a missing key, TypeError for an empty document, the        *)
(* parser's error for text that is not YAML.                               *)
(***************************************************************************)
C27_MalformedIsConfigurationError ==
    unit.phase = "loaded" =>
        /\ Malformed(unit.doc) => unit.outcome = Raises("ConfigurationError")
        /\ ~Malformed(unit.doc) =>
              /\ "returns" \in DOMAIN unit.outcome
              /\ (unit.tags = Null /\ unit.case_id = None) =>
                    \A i \in 1..Len(unit.doc.returns.dict.cases) :
                       "tags" \notin DOMAIN unit.doc.returns.dict.cases[i]
                          => unit.outcome.returns[i].tags = <<>>

(***************************************************************************)
(* C28. revert(plan) changes no file for an action that did not go through *)
(* apply: after revert on a never-applied plan every file has the content, *)
(* or the absence, it had before.                                          *)
(* An action that was never applied has _original = None, which revert     *)
(* reads as "the file did not exist before apply": it removes the file.    *)
(***************************************************************************)
C28_RevertUnappliedIsNoOp ==
    unit.phase = "reverted_unapplied" => kb = unit.kb0

\* The calls of the oracle a history records.
CallsMade(h) == h.called.ask + h.called.compare + h.called.propose

\* The units an attempt that ended as `how` consumed: the first attempt asks
\* and, given SQL, compares; a retry attempt proposes first.
FirstUnits(how) == IF how = "non_sql" THEN 1 ELSE 2
RetryUnits(how) == IF how = "budget" THEN 0 ELSE IF how = "non_sql" THEN 2 ELSE 3

RECURSIVE SumUnits(_, _)
SumUnits(attempts, k) ==
    IF k > Len(attempts) THEN 0
    ELSE (IF k = 1 THEN FirstUnits(attempts[k]) ELSE RetryUnits(attempts[k]))
            + SumUnits(attempts, k + 1)

(***************************************************************************)
(* C29. At every point of a run the oracle-call counter has grown, since   *)
(* the case started, by the number of agent.ask, structural compare and    *)
(* propose calls that have returned (one unit each); result comparison and *)
(* query execution leave it alone; over a finished case it has grown by    *)
(* the units of its attempts: 3 for a retry attempt whose regenerated      *)
(* response was SQL, 2 for one whose response was not.                     *)
(***************************************************************************)
C29_CounterCountsOracleCalls ==
    /\ pc \in CasePcs => llm_calls = hist.calls_start + CallsMade(hist)
    /\ \A i \in Finished :
         /\ done_hist[i].calls_end = done_hist[i].calls_start + CallsMade(done_hist[i])
         /\ done_hist[i].calls_end
              = done_hist[i].calls_start + SumUnits(done_hist[i].attempts, 1)

\* A case that failed structurally, then spent a retry on a response that was
\* not SQL (2 units) and passed on the next one (3 units), result comparisons
\* included.
C29_Witness ==
    /\ Len(done_hist) >= 1
    /\ done_hist[1].attempts = <<"structural_mismatch", "non_sql", "pass">>
    /\ done_hist[1].called = [ask |-> 3, compare |-> 2, propose |-> 2]
    /\ done_hist[1].calls_end = done_hist[1].calls_start + 7

\* The steps of the two concurrent cycles are interleaved: a step of one
\* cycle falls between two steps of the other.
Interleaved(order) ==
    \E i, j, k \in 1..Len(order) :
        i < j /\ j < k /\ order[i] = order[k] /\ order[j] # order[i]

\* What apply records for a file in state `content`.
Recorded(content) ==
    IF content = Absent THEN Null ELSE ReadText(content.bytes).returns

\* Both concurrent cycles are over.
BothReverted == pc = "unit" /\ unit.at = <<"reverted", "reverted">>

\* A step of run_all inside Repairer.apply or Repairer.revert.
RepairStep == pc \in {"apply", "revert"}

(***************************************************************************)
(* C30. With two repair cycles running concurrently against the same file  *)
(* there is an interleaving of their apply and revert steps after which    *)
(* both plans are reverted and the file differs from what it was before    *)
(* either apply (the state C30_Witness describes); whenever that happens   *)
(* the steps were interleaved on one file and an action's recorded         *)
(* original is not the content the file had before either apply.  Under    *)
(* run_all the apply and revert steps of different cases are never         *)
(* interleaved: the case that is running never goes back to an earlier     *)
(* one, and every apply or revert step is a step of the running case,      *)
(* taken when the cases before it have returned their results and none     *)
(* after it has started.                                                   *)
(***************************************************************************)
C30_InterleavingCorruptsRevert ==
    /\ []((BothReverted /\ kb # unit.kb0) =>
             /\ Interleaved(unit.order)
             /\ unit.plans[1].actions[1].file = unit.plans[2].actions[1].file
             /\ \E c \in Cycles :
                   unit.plans[c].actions[1].original
                      # Recorded(unit.kb0[unit.plans[c].actions[1].file]))
    /\ [][ /\ case_idx' >= case_idx
           /\ RepairStep =>
                /\ case_idx \in 1..Len(cases)
                /\ Len(results) = case_idx - 1
                /\ Len(hist.status) = Len(repair_plans)
                /\ done_hist' = done_hist
                /\ results' = results
                /\ case_idx' = case_idx
           /\ kb' # kb => (RepairStep \/ pc = "unit") ]_vars

\* apply 1, apply 2, revert 1, revert 2, each call running whole, on
\* snippets/dau.sql holding "original": the second plan recorded the first
\* plan's content as the original and puts it back last.
C30_Witness ==
    /\ BothReverted
    /\ unit.order = <<1, 2, 1, 2>>
    /\ unit.kb0["snippets/dau.sql"] = Ascii("original")
    /\ unit.plans[1].actions[1].file = "snippets/dau.sql"
    /\ unit.plans[2].actions[1].file = "snippets/dau.sql"
    /\ unit.plans[1].actions[1].original = Text("original")
    /\ unit.plans[2].actions[1].original = Text("modified")
    /\ kb["snippets/dau.sql"] = Ascii("modified")

(***************************************************************************)
(* C31. load(case_id = x) returns at most one case for every source, a     *)
(* source in which several records carry the same id included.             *)
(* The id filter keeps every record with the requested id, and nothing     *)
(* makes the ids of a file unique.                                         *)
(***************************************************************************)
C31_AtMostOneCaseById ==
    (/\ unit.phase = "loaded"
     /\ unit.case_id # None
     /\ "returns" \in DOMAIN unit.outcome) =>
        Len(unit.outcome.returns) <= 1

(***************************************************************************)
(* C32. In every CaseResult run_case returns, on every termination path,   *)
(* retries is the number of entries of repair_plans and lies in            *)
(* 0..max_retries; every repair cycle that started, one ended by a         *)
(* response without SQL included, has one plan in the list.                *)
(***************************************************************************)
C32_RetriesCountPlans ==
    \A i \in Finished :
        /\ results[i].retries = Len(results[i].repair_plans)
        /\ results[i].retries >= 0
        /\ results[i].retries <= max_retries
        /\ Len(results[i].repair_plans) = Len(done_hist[i].status)

\* A case repaired in its second cycle, the first cycle having ended on a
\* response without SQL.
C32_Witness ==
    /\ Len(results) >= 1
    /\ done_hist[1].attempts = <<"structural_mismatch", "non_sql", "pass">>
    /\ results[1].passed
    /\ results[1].retries = 2
    /\ Len(results[1].repair_plans) = 2

(***************************************************************************)
(* C33. In every CaseResult run_case returns, structural_result and        *)
(* result_result describe the same generated SQL: result_result is there   *)
(* only if structural_result is there with match = true, and the SQL that  *)
(* was executed is the SQL that was judged last.                           *)
(* A retry whose SQL fails the structural comparison replaces              *)
(* struct_result and keeps the result_outcome of the earlier SQL; the      *)
(* final CaseResult carries both.                                          *)
(***************************************************************************)
C33_ResultNeedsStructuralMatch ==
    \A i \in Finished :
        results[i].result_result # Null =>
            /\ results[i].structural_result # Null
            /\ results[i].structural_result.match
            /\ done_hist[i].executed_sql = done_hist[i].judged_sql

(***************************************************************************)
(* C34. After run_case returns a CaseResult with passed = false, every     *)
(* knowledge-base file has the content, or the absence, it had when        *)
(* run_case started.                                                       *)
(* A retry that matches structurally and mismatches on the results leaves  *)
(* its plan applied; when the retries end there, the failed case returns   *)
(* with the edit on disk.                                                  *)
(***************************************************************************)
C34_FailedCaseLeavesNoEdit ==
    \A i \in Finished :
        ~results[i].passed => done_hist[i].kb_end = done_hist[i].kb_start

\* Finished case i started with the budget used up and its first attempt
\* ended in a mismatch.
NeedsRepairWithoutBudget(i) ==
    /\ i \in Finished
    /\ done_hist[i].calls_start >= max_llm_calls
    /\ done_hist[i].attempts # <<>>
    /\ done_hist[i].attempts[1] \in Mismatches

\* Finished case i was stopped by the budget before any repair cycle.
StoppedAtOnce(i) ==
    /\ ~results[i].passed
    /\ results[i].error = BudgetError
    /\ results[i].retries = 0
    /\ results[i].repair_plans = <<>>

(***************************************************************************)
(* C35, as stated. Through the lifetime of a Runner (every run_all called  *)
(* on it) the oracle-call counter never decreases, and once it has reached *)
(* max_llm_calls no later step calls propose, apply or revert; every later *)
(* case that needs repair ends failed with the budget-exhaustion error and *)
(* retries = 0.                                                            *)
(* The budget is tested at the head of a retry attempt only: an attempt    *)
(* whose propose brings the counter to max_llm_calls still applies, and    *)
(* may revert, its plan; and a later case of a runner with no_repair or    *)
(* max_retries = 0 ends with its failure context, not the budget error.    *)
(***************************************************************************)
C35_NoRepairStepAfterBudget ==
    /\ [](\A i \in Finished : NeedsRepairWithoutBudget(i) => StoppedAtOnce(i))
    /\ [][ /\ llm_calls' >= llm_calls
           /\ llm_calls >= max_llm_calls => pc \notin {"propose", "apply", "revert"} ]_vars

(***************************************************************************)
(* C35, amended. Through the lifetime of a Runner (every run_all called on *)
(* it) the oracle-call counter never decreases, and once it has reached    *)
(* max_llm_calls no later step calls propose; apply and revert are then    *)
(* called only on the plan proposed last, in the attempt that was under    *)
(* way; every later case that needs repair, in this run_all or a later     *)
(* one, of a runner that repairs (no_repair off, max_retries > 0), ends    *)
(* failed with the budget-exhaustion error, retries = 0 and no plan.       *)
(***************************************************************************)
C35_NoProposeAfterBudget ==
    /\ [](\A i \in Finished :
            (NeedsRepairWithoutBudget(i) /\ ~no_repair /\ max_retries > 0)
                => StoppedAtOnce(i))
    /\ [][ /\ llm_calls' >= llm_calls
           /\ llm_calls >= max_llm_calls =>
                /\ pc # "propose"
                /\ pc = "apply" =>
                      /\ plan = Len(repair_plans)
                      /\ hist.status[plan] = "proposed"
                      /\ hist'.status = [hist.status EXCEPT ![plan] = hist'.status[plan]]
                      /\ hist'.status[plan] \in {"applied", "apply_raised"}
                /\ pc = "revert" =>
                      /\ plan = Len(repair_plans)
                      /\ hist.status[plan] = "applied"
                      /\ hist'.status = [hist.status EXCEPT ![plan] = "reverted"] ]_vars

\* A second run_all on the Runner whose first run_all used up the budget:
\* the counter is where the first run left it, the first case of the second
\* run used the last of the budget inside a repair cycle (its plan applied
\* and reverted with the counter at max_llm_calls or beyond), and the
\* second case mismatched and was stopped at the head of its first retry.
C35_Witness ==
    /\ runs = 2
    /\ Len(results) = 2
    /\ max_llm_calls = 7
    /\ ~dry_run
    /\ done_hist[1].calls_start = 4
    /\ done_hist[1].status = <<"reverted">>
    /\ done_hist[2].calls_start >= max_llm_calls
    /\ done_hist[2].attempts = <<"structural_mismatch", "budget">>
    /\ StoppedAtOnce(2)

\* The most oracle calls one case can make: ask and compare, then propose,
\* ask and compare in each repair cycle.
MostCalls == 2 + 3 * max_retries

(***************************************************************************)
(* C36. With every collaborator call returning, run_case reaches a         *)
(* CaseResult after at most max_retries repair cycles and at most          *)
(* 2 + 3 * max_retries oracle calls, and run_all ends after exactly one    *)
(* run_case per input case; with max_retries = 0 a mismatching case fails  *)
(* with retries = 0 and no propose call.  (pc = "raised": a call did not   *)
(* return, it raised.)                                                     *)
(***************************************************************************)
C36_RunTerminates ==
    /\ [](/\ Len(results) <= Len(cases)
          /\ pc \in CasePcs =>
                /\ Len(hist.status) <= max_retries
                /\ llm_calls - hist.calls_start <= MostCalls
          /\ \A i \in Finished :
                /\ results[i].case_id = cases[i].id
                /\ Len(done_hist[i].status) <= max_retries
                /\ done_hist[i].calls_end - done_hist[i].calls_start <= MostCalls
                /\ (max_retries = 0 /\ done_hist[i].attempts[1] \in Mismatches) =>
                      /\ ~results[i].passed
                      /\ results[i].retries = 0
                      /\ results[i].repair_plans = <<>>
                      /\ done_hist[i].called.propose = 0
          /\ pc = "done" => Len(results) = Len(cases))
    /\ <>(pc = "done" \/ pc = "raised")
    /\ \A i \in 1..NumCases :
         (case_idx = i /\ pc = "generate") ~> (i \in Finished \/ pc = "raised")

\* The run is over, and one of its cases used every repair cycle and every
\* oracle call two retries allow.
C36_Witness ==
    /\ pc = "done"
    /\ max_retries = 2
    /\ \E i \in Finished :
         /\ Len(done_hist[i].status) = 2
         /\ done_hist[i].calls_end - done_hist[i].calls_start = 8

(***************************************************************************)
(* C37. Within a case, outside a dry run, each proposed plan is applied    *)
(* exactly once, right after it is proposed and appended to the plan       *)
(* history and before the agent is asked again; a plan is reverted at most *)
(* once, only after its own apply and before the next plan is proposed;    *)
(* revert is never called on a plan other than the one applied last.       *)
(* (An apply that raises ends the run: its plan is not applied again, and  *)
(* not reverted.)                                                          *)
(***************************************************************************)
C37_PlanLifecycle ==
    /\ [](~dry_run =>
            /\ \A k \in 1..Len(hist.status) :
                  /\ k < Len(hist.status) => hist.status[k] \in {"applied", "reverted"}
                  /\ hist.status[k] = "proposed" => pc = "apply"
            /\ pc \in {"regenerate", "restructural", "reresult", "revert"} =>
                  /\ plan = Len(repair_plans)
                  /\ Len(hist.status) = Len(repair_plans)
                  /\ hist.status[plan] = "applied")
    /\ [][~dry_run =>
            /\ pc = "propose" =>
                  /\ pc' = "apply"
                  /\ plan' = Len(repair_plans) + 1
                  /\ Len(repair_plans') = Len(repair_plans) + 1
                  /\ hist'.status = Append(hist.status, "proposed")
            /\ pc = "apply" =>
                  /\ plan = Len(repair_plans)
                  /\ hist.status[plan] = "proposed"
                  /\ hist'.called = hist.called
                  /\ IF pc' = "raised"
                     THEN hist'.status = [hist.status EXCEPT ![plan] = "apply_raised"]
                     ELSE /\ hist'.status = [hist.status EXCEPT ![plan] = "applied"]
                          /\ pc' = "regenerate"
            /\ pc = "revert" =>
                  /\ plan = Len(repair_plans)
                  /\ hist.status[plan] = "applied"
                  /\ hist'.status = [hist.status EXCEPT ![plan] = "reverted"]
                  /\ hist'.called.propose = hist.called.propose
                  /\ pc' = "loop"
            /\ (pc \in CasePcs \ {"propose", "apply", "revert"} /\ pc' \in CasePcs
                   /\ Len(results') = Len(results)) =>
                  hist'.status = hist.status /\ kb' = kb]_vars

\* The second plan of a case has just been applied, the first one having been
\* applied and reverted; the agent is about to be asked again.
C37_Witness ==
    /\ ~dry_run
    /\ pc = "regenerate"
    /\ hist.status = <<"reverted", "applied">>
    /\ plan = 2

\* generated is expected with one permutation f applied to the column list
\* and to the cells of every row.
ColumnsPermutedBy(f, expected, generated) ==
    /\ Len(generated.columns) = Len(expected.columns)
    /\ Len(generated.rows) = Len(expected.rows)
    /\ \A i \in 1..Len(expected.columns) : generated.columns[i] = expected.columns[f[i]]
    /\ \A r \in 1..Len(expected.rows) :
         /\ Len(expected.rows[r]) = Len(expected.columns)
         /\ Len(generated.rows[r]) = Len(expected.columns)
         /\ \A i \in 1..Len(expected.columns) :
               generated.rows[r][i] = expected.rows[r][f[i]]

ColumnsPermuted(expected, generated) ==
    \E f \in Permutations(1..Len(expected.columns)) :
        ColumnsPermutedBy(f, expected, generated)

\* The same column names in another order over positionally identical rows,
\* whose values are therefore under other columns.
ColumnsCrossed(expected, generated) ==
    /\ generated.columns # expected.columns
    /\ SortedColumns(generated.columns) = SortedColumns(expected.columns)
    /\ generated.rows = expected.rows
    /\ generated.rows # <<>>
    /\ ~ColumnsPermuted(expected, generated)

(***************************************************************************)
(* C38. The verdict of compare does not depend on column order: if         *)
(* generated is expected with one permutation applied to the column list   *)
(* and to the cells of every row, match is true; if the two sides list the *)
(* same column names in different orders over positionally identical rows, *)
(* match is false.                                                         *)
(* Only the column names are compared order-insensitively; the cells of a  *)
(* row are compared by position, whatever column they are under.           *)
(***************************************************************************)
C38_ColumnOrderIrrelevant ==
    (/\ unit.phase \in {"compared", "swapped"}
     /\ unit.expected.error = None
     /\ unit.generated.error = None) =>
        /\ ColumnsPermuted(unit.expected, unit.generated) =>
              unit.fwd = Returns(ResultCompareResult(TRUE, <<>>, 0, <<>>))
        /\ ColumnsCrossed(unit.expected, unit.generated) =>
              /\ "returns" \in DOMAIN unit.fwd
              /\ ~unit.fwd.returns.match

\* The rows of generated can be put in one-to-one correspondence with the rows
\* of expected so that _rows_equal holds of every pair.
RowsCanBePaired(expected, generated, tolinv) ==
    /\ Len(generated.rows) = Len(expected.rows)
    /\ \E f \in Permutations(1..Len(expected.rows)) :
          \A i \in 1..Len(expected.rows) :
              RowsEqual(expected.rows[i], generated.rows[f[i]], tolinv) = Returns(TRUE)

(***************************************************************************)
(* C39. If the rows of generated can be put in one-to-one correspondence   *)
(* with the rows of expected so that every paired row is cell-wise equal   *)
(* under the tolerance rule, compare returns match = true.                 *)
(* The rows are paired by their position after each side is sorted on its  *)
(* own string forms, which can separate two rows that are equal within the *)
(* tolerance: [10] sorts before [5], [9.99] after it.                      *)
(***************************************************************************)
C39_PairingFoundWhenOneExists ==
    (/\ unit.phase \in {"compared", "swapped"}
     /\ unit.expected.error = None
     /\ unit.generated.error = None
     /\ unit.generated.columns = unit.expected.columns
     /\ RowsCanBePaired(unit.expected, unit.generated, unit.tolinv)) =>
        /\ "returns" \in DOMAIN unit.fwd
        /\ unit.fwd.returns.match

====
